---- MODULE Spec2Model ----
(***************************************************************************)
(* State-machine model of the embedding map's streaming ingestion, its     *)
(* force-layout / dispersal-animation pipeline and its zoom propagation.   *)
(*                                                                         *)
(* Loader worker   : workers/loader.ts (startLoadData, processPointStream, *)
(*                   pointStreamFinished)                                  *)
(* UI thread       : Embedding.ts (loaderWorkerMessageHandler,             *)
(*                   onSimulationComplete, startDispersalAnimation,        *)
(*                   finalizeDispersalAnimation, zoomed, zoomEnded, ...)   *)
(* Force layout    : PointForceSimulation (updateSimulation, tick handler) *)
(* Raster / overlay: EmbeddingPointWebGL.ts (drawScatterPlot, ...)         *)
(*                                                                         *)
(* Every field of the Embedding object (and the module-level state of the  *)
(* files attached to it) is a field of the record ui; a method is an       *)
(* operator from ui to ui, and a handler is the composition of the methods *)
(* it calls, so that one action is one whole handler.                      *)
(***************************************************************************)
EXTENDS Integers, Sequences, FiniteSets, TLC

(***************************************************************************)
(* Bounds of the model                                                     *)
(***************************************************************************)
\* Largest number of records the stream delivers.
MaxRecords == 4
\* Batch threshold of the loader, scaled down from 5000 points.
POINT_THRESHOLD == 2
\* Distance between two raw embedding coordinates / one layout displacement.
GridStep == 27
\* Tick cap of a force-layout run, scaled down from 300.
MaxIterations == 4
\* alphaMin in units of 1/AlphaOne, scaled up from 0.001 so that a run is short.
AlphaMin == 10
\* Number of frame slots one dispersal animation is divided into
\* (elapsed time is counted in units of ANIMATION_DURATION / FramesPerAnimation).
FramesPerAnimation == 3
\* Granularity of the clock, in milliseconds.
TimeQuantum == 8

(***************************************************************************)
(* Program constants                                                       *)
(***************************************************************************)
\* alpha = 1 in fixed point.
AlphaOne == 16
\* alphaDecay = 0.25 = 1 / AlphaDecayDen.
AlphaDecayDen == 4
\* DRAW_THROTTLE of drawScatterPlot, in milliseconds.
DRAW_THROTTLE == 16

Null == [null |-> TRUE, val |-> <<>>]
Some(v) == [null |-> FALSE, val |-> v]

Min(a, b) == IF a < b THEN a ELSE b
Max(a, b) == IF a > b THEN a ELSE b

\* Bodies the data URL can serve: the raw embedding coordinates of record n.
\* In the second one records lie on top of each other.
Responses == {"spread", "stacked"}
RawPosition(body, n) ==
  IF body = "spread" THEN <<n * GridStep, 0>>
                     ELSE <<(n % 2) * GridStep, 2 * GridStep>>
\* Displacements one layout tick can apply to a point.
TickDeltas == {<<GridStep, 0>>, <<0, 0 - GridStep>>}

VARIABLES
  \* ---- loader worker (module state of workers/loader.ts) ----
  loaderInbox,          \* messages delivered to the loader worker, unhandled
  response,             \* body of the fetch response (which data set is served)
  loaderState,          \* "idle" | "fetching" | "streaming" | "done" | "failed"
  pendingDataPoints,
  loadedPointCount,
  sentPointCount,
  lastDrawnPoints,
  loaderErrors,         \* number of console.error reports of the loader
  posted,               \* every transferLoadData message posted, in order
  \* ---- tree worker ----
  treeHandled,          \* number of messages of ui.toTree the worker handled
  treeToUI,             \* messages posted by the tree worker, in order
  \* ---- search worker (module state of workers/search.ts) ----
  searchWorker,         \* addPoints messages handled, ids indexed, errors logged
  \* ---- search panel, searchBarStore and its subscriber in Embedding ----
  searchPanel,
  \* ---- UI thread ----
  handled,              \* number of posted batches the UI thread has handled
  treeToUIHandled,      \* number of treeToUI messages the UI thread handled
  ui                    \* the Embedding object

loaderVars == <<loaderInbox, response, loaderState, pendingDataPoints, loadedPointCount,
                sentPointCount, lastDrawnPoints, loaderErrors, posted>>
treeVars == <<treeHandled, treeToUI, searchWorker, searchPanel>>
uiVars == <<handled, treeToUIHandled, ui>>

vars == <<loaderVars, treeVars, uiVars>>

\* DEBOUNCE_DELAY of the search panel, in milliseconds.
DEBOUNCE_DELAY == 100
\* Granularity of the search panel's clock, in milliseconds.
SearchQuantum == 50
MaxCancels == 1
\* Largest number of input events of one session.
MaxSearchInputs == 3
\* Texts of the search input
Texts == {"", "a", "b"}

\* SearchPanel after construction, getSearchBarStoreDefaultValue, and
\* completedSearchQueryID of Embedding
InitSearchPanel ==
  [inputValue |-> "",
   debounceTimer |-> Null,              \* query captured by the pending timer
   sinceInput |-> DEBOUNCE_DELAY,       \* ms since the last input event, capped
   store |-> [query |-> "", queryID |-> 0, shown |-> FALSE],
   completedSearchQueryID |-> 0,
   startQueries |-> <<>>,               \* startQuery messages posted, in order
   answered |-> 0,                      \* finishQuery messages handled
   inputs |-> 0,
   inFlight |-> {},                     \* queryIDs posted and not yet answered
   results |-> 0,                       \* queryID that store.results answer
   searchPointResults |-> 0,            \* the same of searchPointResults
   cancels |-> 0,
   selectedPointId |-> Null,
   cancelled |-> FALSE]                 \* cancelSearch ran after the last text

(***************************************************************************)
(* Points and position maps                                                *)
(***************************************************************************)
PositionsOf(points) == [i \in DOMAIN points |-> <<points[i].x, points[i].y>>]

\* new Map(); for (point of points) map.set(point.id, {x, y})
PositionMap(points) ==
  LET ids == {points[i].id : i \in DOMAIN points}
      last(id) == CHOOSE i \in DOMAIN points :
                    /\ points[i].id = id
                    /\ \A j \in DOMAIN points : points[j].id = id => j <= i
  IN [id \in ids |-> <<points[last(id)].x, points[last(id)].y>>]

\* for (point of points) { p = map.get(point.id); if (p) point.x, y = p }
MoveTo(points, map) ==
  [i \in DOMAIN points |->
     IF points[i].id \in DOMAIN map
       THEN [points[i] EXCEPT !.x = map[points[i].id][1],
                              !.y = map[points[i].id][2]]
       ELSE points[i]]

\* buffer.subdata(data, offset), offset counted in points
Subdata(buffer, data, offset) ==
  [i \in 1..Max(Len(buffer), offset + Len(data)) |->
     IF i > offset /\ i <= offset + Len(data) THEN data[i - offset]
     ELSE buffer[i]]

(***************************************************************************)
(* Zoom transforms.  The scale k is kept in units of 1/KOne; one           *)
(* translation component stands for the pair (x, y), which the code        *)
(* always treats alike.                                                    *)
(***************************************************************************)
\* k = 1
KOne == 20
\* config.layout.zoomScale = [kMin, kMax] = [0.5, 40]
KMin == 10
KMax == 800
\* ZOOM_THROTTLE, in milliseconds.
ZOOM_THROTTLE == 16
\* mousemoveHandler's throttle, in ms
MOUSE_MOVE_THROTTLE == 16
\* Numerator of the zoom-dependent term of the hover threshold, in px
HoverMinPixels == 7
\* Cap of curPointWidth; with as few points as here the formula of
\* drawScatterPlot is above it
PointWidthCap == 5

Transform(k, x) == [k |-> k, x |-> x]
zoomIdentity == Transform(KOne, 0)

(***************************************************************************)
(* The Embedding object after its constructor                              *)
(***************************************************************************)
InitUI(safari, showPoint) ==
  [ \* messages posted to the tree worker, in order
    toTree |-> <<>>,
    toSearch |-> {},                  \* ids of the points posted with addPoints
    consoleErrors |-> 0,              \* console.error reports of the handlers
    initStage |-> "constructed",
    \* data
    promptPoints |-> <<>>,
    loadedPointCount |-> 1,
    webGLMatrices |-> FALSE,
    frontPositionBuffer |-> Null,
    frontBufferPointSize |-> 0,
    pointQuadtree |-> Null,
    \* dispersal animation
    preSimPositions |-> Null,
    postSimPositions |-> Null,
    isAnimatingDispersal |-> FALSE,
    animationFrameId |-> FALSE,   \* TRUE: a frame callback is requested
    animElapsed |-> 0,            \* now - animationStartTime, in frame slots
    \* forceSimulation (PointForceSimulation and its d3 simulation)
    simulation |-> FALSE,         \* the d3 simulation object exists
    simTimer |-> FALSE,           \* the d3 timer of the simulation runs
    alpha |-> AlphaOne,
    iterationCount |-> 0,
    isRunning |-> FALSE,
    \* history of the forceSimulation: calls of the onEnd callback since the
    \* simulation was last started from rest (counted up to 2), and whether
    \* updateSimulation was called again while that run was in flight
    onEndCalls |-> 0,
    superseded |-> FALSE,
    \* point overlay (g.points) and drawScatterPlot's throttle
    sinceDraw |-> DRAW_THROTTLE,  \* now - lastDrawTime, saturated
    pointsGroup |-> Null,         \* transform of g.points, Null: no such group
    pointMarks |-> <<>>,          \* translate() of the g.point marks
    \* pictures of the marks
    imageHref |-> <<>>,           \* xlink:href of each mark's image
    imageAspectRatioCache |-> {}, \* URLs that have a cached aspect ratio
    imageLoading |-> {},          \* Image objects whose load has not ended
    imageDecoded |-> {},          \* URLs an Image was created for
    imageDecodedAgain |-> {},     \* URLs an Image was created for twice
    \* zoom behaviour (d3-zoom state of topSvg)
    zoomTransform |-> zoomIdentity,   \* d3.zoomTransform(topSvg)
    gesture |-> "none",               \* "none" | "user" | "transition"
    transition |-> Null,
    \* zoom handling of the Embedding
    initZoomTransform |-> zoomIdentity,
    curZoomTransform |-> zoomIdentity,
    zoomRafPending |-> FALSE,
    \* callbacks handed to requestAnimationFrame that have not run yet
    frameCallbacks |-> [zoom |-> 0, mouse |-> 0],
    zoomRafEvent |-> zoomIdentity,    \* e.transform held by the frame callback
    sinceZoom |-> ZOOM_THROTTLE,      \* now - lastZoomTime, saturated
    deferredZoomTimeout |-> FALSE,    \* TRUE: the timer is pending
    zoomTimeout |-> FALSE,
    hideHighlights |-> FALSE,
    \* drawing surfaces
    umapGroup |-> zoomIdentity,       \* transform of .umap-group
    topGroup |-> zoomIdentity,        \* transform of .top-group
    searchCanvasHidden |-> TRUE,
    searchPass |-> Null,              \* zoom matrix of the last search pass
    searchPointResults |-> <<>>,      \* ids of the results, in their order
    searchDraw |-> Null,              \* count and positions of the last pass
    \* hover and selection (points are referred to by id)
    hoverPoint |-> Null,
    clickedPoint |-> Null,
    lastMouseClientPosition |-> Null,
    curPointWidth |-> 1,
    \* mousemoveHandler's throttle and frame guard
    rafPending |-> FALSE,
    rafEvent |-> <<0, 0>>,            \* offsetX, offsetY held by the callback
    sinceMouseMove |-> MOUSE_MOVE_THROTTLE,  \* now - lastMouseMoveTime, saturated
    \* hover-leave timers: the slot names the kind of the pending timer it
    \* holds ("out": mouseout's 500 ms, "clear": highlightPoint's 300 ms);
    \* the counts are the pending timers that the slot no longer holds
    pointMouseleaveTimer |-> "none",
    orphanTimers |-> [out |-> 0, clear |-> 0],
    \* the mark the pointer is over, as the browser sees it (0: none)
    over |-> 0,
    \* environment and settings
    isSafari |-> safari,
    showPoints |-> showPoint,
    \* lifecycle
    storeUnsubscribers |-> 3,         \* store subscriptions that are held
    placeholderIntervalId |-> FALSE,  \* TRUE: an interval is held
    placeholderIntervals |-> 0,       \* intervals that are running
    checkModelStatusHandled |-> FALSE,
    cleanedUp |-> FALSE,              \* cleanup() has returned
    inputs |-> 0 ]                    \* user inputs received so far

BuffersReady(u) == ~u.frontPositionBuffer.null

(***************************************************************************)
(* EmbeddingPointWebGL.ts                                                  *)
(***************************************************************************)
\* initWebGLBuffers (gridData is set whenever points are loaded)
initWebGLBuffers(u) ==
  [u EXCEPT !.frontPositionBuffer = Some(PositionsOf(u.promptPoints)),
            !.frontBufferPointSize = Len(u.promptPoints)]

\* updateWebGLBuffers(newPoints)
updateWebGLBuffers(u, newPoints) ==
  [u EXCEPT !.frontPositionBuffer =
              Some(Subdata(u.frontPositionBuffer.val, PositionsOf(newPoints),
                           u.frontBufferPointSize)),
            !.frontBufferPointSize = u.frontBufferPointSize + Len(newPoints)]

\* URLs are numbered: the picture of a point by the point's id, the
\* default picture by the number no point has.
currURL(pt) == pt.id
DefaultURL == MaxRecords

\* The pictures of one redraw: every entering mark gets its href and an
\* Image is created for it; then, for every mark, entering or not, the
\* cache is asked for the href and on a miss an Image is created whose
\* onload will fill the cache.
drawImages(u) ==
  LET n0 == Len(u.imageHref)
      n == Len(u.promptPoints)
      href == [i \in 1..n |-> IF i <= n0 THEN u.imageHref[i]
                                         ELSE currURL(u.promptPoints[i])]
      entering == {[el |-> i, src |-> href[i], caches |-> FALSE] :
                     i \in (n0 + 1)..n}
      misses == {[el |-> i, src |-> href[i], caches |-> TRUE] :
                   i \in {j \in 1..n : href[j] \notin u.imageAspectRatioCache}}
      created == entering \cup misses
      once == {l.src : l \in created}
      twice == {l.src : l \in {a \in created :
                   \E b \in created : b # a /\ b.src = a.src}}
  IN [u EXCEPT !.imageHref = href,
               !.imageLoading = u.imageLoading \cup created,
               !.imageDecoded = u.imageDecoded \cup once,
               !.imageDecodedAgain = u.imageDecodedAgain \cup twice
                                       \cup (once \cap u.imageDecoded)]

\* drawScatterPlot(isPanningOnly): throttled; otherwise g.points is created
\* or re-transformed and every point gets its mark, placed at its position.
drawScatterPlot(u, isPanningOnly) ==
  IF u.sinceDraw < DRAW_THROTTLE /\ ~isPanningOnly THEN u
  ELSE IF ~u.webGLMatrices \/ ~BuffersReady(u) THEN [u EXCEPT !.sinceDraw = 0]
  ELSE drawImages([u EXCEPT !.sinceDraw = 0,
                            !.curPointWidth = PointWidthCap,
                            !.pointsGroup = Some(u.curZoomTransform),
                            !.pointMarks = PositionsOf(u.promptPoints)])

(***************************************************************************)
(* Hover and selection                                                     *)
(***************************************************************************)
\* clearTimeout(pointMouseleaveTimer); pointMouseleaveTimer = null
clearLeaveTimer(u) == [u EXCEPT !.pointMouseleaveTimer = "none"]

\* pointMouseleaveTimer = null, whatever the slot holds stays pending
dropLeaveTimer(u) ==
  IF u.pointMouseleaveTimer = "none" THEN u
  ELSE [u EXCEPT !.pointMouseleaveTimer = "none",
                 !.orphanTimers[u.pointMouseleaveTimer] = @ + 1]

\* pointMouseleaveTimer = window.setTimeout(...), whatever the slot held
\* stays pending
setLeaveTimer(u, kind) ==
  [dropLeaveTimer(u) EXCEPT !.pointMouseleaveTimer = kind]

\* highlightPoint({point}): point is Null for undefined.  pointMouseenterTimer
\* is never set, so clearing it does nothing.  (mutant: the selection
\* follows the hover)
highlightPointSelects(u, point) ==
  IF ~u.showPoints THEN u
  ELSE IF ~point.null /\ point = u.hoverPoint THEN u
  ELSE IF u.hideHighlights THEN u
  ELSE IF point.null THEN setLeaveTimer(clearLeaveTimer(u), "clear")
  ELSE [u EXCEPT !.hoverPoint = point, !.clickedPoint = point]
highlightPoint(u, point) ==
  IF ~u.showPoints THEN u
  ELSE IF ~point.null /\ point = u.hoverPoint THEN u
  ELSE IF u.hideHighlights THEN u
  ELSE IF point.null THEN setLeaveTimer(clearLeaveTimer(u), "clear")
  ELSE [u EXCEPT !.hoverPoint = point]

\* selectPoint(point): clickedPoint, which the store and the classes of the
\* marks follow (mutant: a new selection is refused while another point is
\* selected)
selectPointIfNone(u, point) ==
  IF point = u.clickedPoint THEN u
  ELSE IF ~point.null /\ ~u.clickedPoint.null THEN u
  ELSE [u EXCEPT !.clickedPoint = point]
selectPoint(u, point) ==
  IF point = u.clickedPoint THEN u
  ELSE [u EXCEPT !.clickedPoint = point]

\* Screen coordinate of a data coordinate under the scales of initData.
Screen(x) == x

\* d3.ZoomTransform: applyX, applyY, invertX, invertY over the scales of
\* initData (the transforms of the model translate along x only)
applyX(t, x) == (t.k * x) \div KOne + t.x
applyY(t, y) == (t.k * y) \div KOne
invertX(t, sx) == ((sx - t.x) * KOne) \div t.k
invertY(t, sy) == (sy * KOne) \div t.k

\* pointQuadtree.find(x, y): the id of the indexed point nearest to (x, y),
\* undefined when nothing is indexed (mutant: the point added first)
findFirst(u, x, y) ==
  IF Len(u.pointQuadtree.val) = 0 THEN Null
  ELSE Some(u.pointQuadtree.val[1].id)
find(u, x, y) ==
  LET pts == u.pointQuadtree.val
      d2(i) == (pts[i].x - x) * (pts[i].x - x) + (pts[i].y - y) * (pts[i].y - y)
      best == CHOOSE i \in DOMAIN pts :
                \A j \in DOMAIN pts : d2(i) < d2(j) \/ (d2(i) = d2(j) /\ i <= j)
  IN IF Len(pts) = 0 THEN Null ELSE Some(pts[best].id)

\* Square of the screen distance between (x, y) and the point with this id
ScreenDistance2(u, id, x, y) ==
  LET pt == CHOOSE q \in {u.promptPoints[i] : i \in DOMAIN u.promptPoints} :
              q.id = id
      sx == applyX(u.curZoomTransform, Screen(pt.x))
      sy == applyY(u.curZoomTransform, pt.y)
  IN (x - sx) * (x - sx) + (y - sy) * (y - sy)

\* screenDistance <= Math.max(7 / k, curPointWidth * 2), on the squares:
\* d <= 2w or d <= 7/k, and d * d, an integer, is at most (7/k) * (7/k)
\* exactly if it is at most the integer part of that.
WithinHoverThreshold(u, dist2) ==
  \/ dist2 <= (2 * u.curPointWidth) * (2 * u.curPointWidth)
  \/ dist2 <= ((HoverMinPixels * KOne) * (HoverMinPixels * KOne))
                 \div (u.curZoomTransform.k * u.curZoomTransform.k)

\* mouseoverPoint(x, y); without a local index the tree worker is asked
mouseoverPoint(u, x, y) ==
  IF ~u.pointQuadtree.null /\ Len(u.promptPoints) > 0
    THEN LET closestPoint == find(u, invertX(u.curZoomTransform, x),
                                     invertY(u.curZoomTransform, y))
         IN IF closestPoint.null THEN u
            ELSE IF WithinHoverThreshold(u,
                      ScreenDistance2(u, closestPoint.val, x, y))
              THEN highlightPoint(u, closestPoint)
              ELSE u
    ELSE [u EXCEPT !.toTree = Append(u.toTree, "startQuadtreeSearch")]

\* The hover is resolved again at the last pointer position
rehover(u) ==
  IF ~u.lastMouseClientPosition.null /\ ~u.hideHighlights
    THEN mouseoverPoint(u, u.lastMouseClientPosition.val[1],
                           u.lastMouseClientPosition.val[2])
    ELSE u

\* drawSearchScatterPlot: the raster pass of the search results
\* positions of drawSearchScatterPlot: the result that is the clicked point
\* is skipped
SearchPositions(u) ==
  SelectSeq(u.searchPointResults, LAMBDA id : u.clickedPoint # Some(id))
drawSearchScatterPlot(u) ==
  IF ~u.webGLMatrices THEN u
  ELSE [u EXCEPT !.searchPass = Some(u.curZoomTransform),
                 !.searchDraw = Some([count |-> Len(u.searchPointResults),
                                      positions |-> Len(SearchPositions(u))])]

\* resultPoints of finishQuery; the worker's answer lists every point
ResultPoints(u) == [i \in DOMAIN u.promptPoints |-> u.promptPoints[i].id]

(***************************************************************************)
(* Embedding.ts: index, buffers, overlay                                   *)
(***************************************************************************)
\* rebuildPointQuadtree: index the points at their current coordinates
\* (mutant: the index is left as it is)
keepPointQuadtree(u) == u
rebuildPointQuadtree(u) ==
  [u EXCEPT !.pointQuadtree = Some(u.promptPoints)]

\* updatePointTransformsOnly: group transform and mark positions only
updatePointTransformsOnly(u) ==
  IF u.pointsGroup.null THEN u
  ELSE [u EXCEPT !.pointsGroup = Some(u.curZoomTransform),
                 !.pointMarks = [i \in DOMAIN u.pointMarks |->
                                   PositionsOf(u.promptPoints)[i]]]

\* updatePointPositionsLightweight: position buffer only
updatePointPositionsLightweight(u) ==
  IF ~BuffersReady(u) \/ Len(u.promptPoints) = 0 THEN u
  ELSE [u EXCEPT !.frontPositionBuffer =
                   Some(Subdata(u.frontPositionBuffer.val,
                                PositionsOf(u.promptPoints), 0))]

\* updatePointPositions: position buffer and tree worker
updatePointPositions(u) ==
  IF ~BuffersReady(u) \/ Len(u.promptPoints) = 0 THEN u
  ELSE [u EXCEPT !.frontPositionBuffer =
                   Some(Subdata(u.frontPositionBuffer.val,
                                PositionsOf(u.promptPoints), 0)),
                 !.toTree = Append(u.toTree, "updateQuadtree")]

(***************************************************************************)
(* PointForceSimulation                                                    *)
(***************************************************************************)
\* updateSimulation(points): restart the existing simulation over the points
\* or create it; either way alpha is 1, the count 0 and the timer runs.
updateSimulation(u) ==
  IF u.simulation
    THEN [u EXCEPT !.iterationCount = 0, !.alpha = AlphaOne, !.simTimer = TRUE,
                   !.onEndCalls = IF u.simTimer THEN @ ELSE 0,
                   !.superseded = u.simTimer]
    ELSE [u EXCEPT !.simulation = TRUE, !.iterationCount = 0,
                   !.alpha = AlphaOne, !.simTimer = TRUE, !.isRunning = TRUE,
                   !.onEndCalls = 0, !.superseded = FALSE]

\* stop()
stopSimulation(u) ==
  IF u.simulation THEN [u EXCEPT !.simTimer = FALSE, !.isRunning = FALSE] ELSE u

(***************************************************************************)
(* Dispersal animation                                                     *)
(***************************************************************************)
\* startDispersalAnimation: request the first frame
startDispersalAnimation(u) ==
  IF u.preSimPositions.null \/ u.postSimPositions.null THEN u
  ELSE [u EXCEPT !.isAnimatingDispersal = TRUE,
                 !.animElapsed = 0,
                 !.animationFrameId = TRUE]

\* onSimulationComplete: capture post, put the points back to pre, render
\* that frame and start the animation.
onSimulationComplete(u) ==
  LET u1 == [u EXCEPT !.postSimPositions = Some(PositionMap(u.promptPoints))]
      u2 == IF u1.preSimPositions.null THEN u1
            ELSE [u1 EXCEPT !.promptPoints =
                              MoveTo(u1.promptPoints, u1.preSimPositions.val)]
      u3 == IF BuffersReady(u2) THEN u2 ELSE initWebGLBuffers(u2)
  IN startDispersalAnimation(
       updatePointTransformsOnly(updatePointPositionsLightweight(u3)))

\* (mutant: the snap takes the pre snapshot)
finalizeSnapToPre(u) ==
  LET u1 == [u EXCEPT !.isAnimatingDispersal = FALSE,
                      !.animationFrameId = FALSE,
                      !.promptPoints =
                        IF u.preSimPositions.null THEN u.promptPoints
                        ELSE MoveTo(u.promptPoints, u.preSimPositions.val)]
      u3 == rebuildPointQuadtree(drawScatterPlot(updatePointPositions(u1), FALSE))
  IN [u3 EXCEPT !.preSimPositions = Null, !.postSimPositions = Null]
\* finalizeDispersalAnimation: snap to post, full update and redraw, rebuild
\* the index, drop the snapshots.
finalizeDispersalAnimation(u) ==
  LET u1 == [u EXCEPT !.isAnimatingDispersal = FALSE,
                      !.animationFrameId = FALSE]
      u2 == IF u1.postSimPositions.null THEN u1
            ELSE [u1 EXCEPT !.promptPoints =
                              MoveTo(u1.promptPoints, u1.postSimPositions.val)]
      u3 == rebuildPointQuadtree(drawScatterPlot(updatePointPositions(u2), FALSE))
  IN [u3 EXCEPT !.preSimPositions = Null, !.postSimPositions = Null]

\* Cubic ease-in-out of t = elapsed / duration, as the fraction num / den.
EaseNum(e) ==
  IF 2 * e < FramesPerAnimation
    THEN 4 * e * e * e
    ELSE 2 * FramesPerAnimation * FramesPerAnimation * FramesPerAnimation
         - (2 * FramesPerAnimation - 2 * e) * (2 * FramesPerAnimation - 2 * e)
           * (2 * FramesPerAnimation - 2 * e)
EaseDen(e) ==
  IF 2 * e < FramesPerAnimation
    THEN FramesPerAnimation * FramesPerAnimation * FramesPerAnimation
    ELSE 2 * FramesPerAnimation * FramesPerAnimation * FramesPerAnimation

\* pre + (post - pre) * t, rounded to the coordinate grid
Lerp(pre, post, e) == pre + ((post - pre) * EaseNum(e)) \div EaseDen(e)

\* One frame of animate(now) with elapsed = now - animationStartTime.
animate(u, elapsed) ==
  LET e == Min(elapsed, FramesPerAnimation)
      pre == u.preSimPositions.val
      post == u.postSimPositions.val
      moved == [i \in DOMAIN u.promptPoints |->
                  LET pt == u.promptPoints[i] IN
                  IF pt.id \in DOMAIN pre /\ pt.id \in DOMAIN post
                    THEN [pt EXCEPT !.x = Lerp(pre[pt.id][1], post[pt.id][1], e),
                                    !.y = Lerp(pre[pt.id][2], post[pt.id][2], e)]
                    ELSE pt]
      u1 == updatePointTransformsOnly(updatePointPositionsLightweight(
              [u EXCEPT !.promptPoints = moved, !.animElapsed = elapsed]))
  IN IF e >= FramesPerAnimation
       THEN finalizeDispersalAnimation(u1)
       ELSE [u1 EXCEPT !.animationFrameId = TRUE]

(***************************************************************************)
(* Zoom handling                                                           *)
(***************************************************************************)
\* zoomed(e): throttle, then at most one frame callback holding e.transform
zoomed(u, transform) ==
  IF u.sinceZoom < ZOOM_THROTTLE THEN u
  ELSE IF u.zoomRafPending THEN [u EXCEPT !.sinceZoom = 0]
  ELSE [u EXCEPT !.sinceZoom = 0,
                 !.zoomRafPending = TRUE,
                 !.zoomRafEvent = transform,
                 !.frameCallbacks.zoom = @ + 1]

\* performDeferredZoomOperations: the full redraw is Safari's only
performDeferredZoomOperations(u) ==
  LET u1 == IF u.isSafari /\ u.showPoints /\ BuffersReady(u)
              THEN drawScatterPlot(u, FALSE)
              ELSE u
  IN IF u1.showPoints THEN rehover(u1) ELSE u1

\* The callback that zoomed() hands to requestAnimationFrame.  Tooltips,
\* topic labels, the grid and the highlight of the selected point are drawn
\* from curZoomTransform as well; they are not part of the state here.
zoomFrame(u) ==
  LET transform == u.zoomRafEvent
      scaleChanged == u.curZoomTransform.k # transform.k
      isPanningOnly == ~scaleChanged
      u1 == [u EXCEPT !.curZoomTransform = transform,
                      !.umapGroup = transform,
                      !.topGroup = transform]
      u2 == IF u1.showPoints /\ BuffersReady(u1)
              THEN IF u1.isSafari THEN updatePointTransformsOnly(u1)
                                  ELSE drawScatterPlot(u1, isPanningOnly)
              ELSE u1
      u3 == IF ~u2.searchCanvasHidden THEN drawSearchScatterPlot(u2) ELSE u2
      u4 == IF u3.isSafari THEN [u3 EXCEPT !.deferredZoomTimeout = TRUE]
                           ELSE performDeferredZoomOperations(u3)
      u5 == IF scaleChanged THEN [u4 EXCEPT !.zoomTimeout = TRUE] ELSE u4
  IN [u5 EXCEPT !.zoomRafPending = FALSE, !.frameCallbacks.zoom = @ - 1]

\* zoomEnded: drop the deferred timer, Safari redraws in full
zoomEnded(u) ==
  LET u1 == [u EXCEPT !.deferredZoomTimeout = FALSE]
  IN IF u1.isSafari /\ u1.showPoints
       THEN rehover(IF BuffersReady(u1) THEN drawScatterPlot(u1, FALSE) ELSE u1)
       ELSE u1

\* d3-zoom's zoom.transform(selection, t) on a plain selection: the
\* transform is stored as given and start, zoom, end are emitted.
zoomTransformCall(u, t) ==
  zoomEnded(zoomed([u EXCEPT !.zoomTransform = t, !.gesture = "none",
                             !.transition = Null], t))

(***************************************************************************)
(* Loader worker (workers/loader)                                          *)
(***************************************************************************)
TransferLoadData(points, isLast, count) ==
  [isFirstBatch |-> lastDrawnPoints.null,
   isLastBatch |-> isLast,
   points |-> points,
   loadedPointCount |-> count]

\* The commands each receiver's switch has a case for.
Recognised ==
  [loaderWorker |-> {"startLoadData"},
   searchWorker |-> {"checkModelStatus", "addPoints", "startQuery"},
   loaderWorkerMessageHandler |-> {"transferLoadData"},
   treeWorkerMessageHandler |-> {"finishInitQuadtree", "finishQuadtreeSearch"},
   searchWorkerMessageHandler |-> {"checkModelStatus", "finishQuery"}]
\* Commands of the message types
Commands == UNION {Recognised[r] : r \in DOMAIN Recognised}
Unrecognised(receiver) == Commands \ Recognised[receiver]

\* default: console.error('Unknown message', e.data.command); break
\* (mutant: the default branch also asks the tree worker for a search)
consoleErrorAndPost(u) ==
  [u EXCEPT !.consoleErrors = @ + 1,
            !.toTree = Append(u.toTree, "startQuadtreeSearch")]
consoleError(u) == [u EXCEPT !.consoleErrors = @ + 1]

\* self.onmessage of the loader worker: startLoadData begins the fetch, any
\* other command is logged.
loaderOnMessage ==
  /\ loaderInbox # <<>>
  /\ loaderInbox' = Tail(loaderInbox)
  /\ IF Head(loaderInbox) = "startLoadData"
       THEN /\ loaderState = "idle"
            /\ loaderState' = "fetching"
            /\ UNCHANGED loaderErrors
       ELSE /\ loaderErrors' = loaderErrors + 1
            /\ UNCHANGED loaderState
  /\ UNCHANGED <<response, pendingDataPoints, loadedPointCount, sentPointCount,
                 lastDrawnPoints, posted, treeVars, uiVars>>

\* startLoadData: the response of fetch; a bad status or a rejected fetch is
\* logged once and nothing is read.
startLoadData(fetchOk, body) ==
  /\ loaderState = "fetching"
  /\ IF fetchOk
       THEN loaderState' = "streaming" /\ response' = body
                                       /\ UNCHANGED loaderErrors
       ELSE loaderState' = "failed" /\ loaderErrors' = loaderErrors + 1
                                    /\ UNCHANGED response
  /\ UNCHANGED <<loaderInbox, pendingDataPoints, loadedPointCount,
                 sentPointCount, lastDrawnPoints, posted, treeVars, uiVars>>

\* (mutant: the batch goes out one record late)
processPointStreamLate ==
  /\ loaderState = "streaming"
  /\ loadedPointCount < MaxRecords
  /\ LET pos == RawPosition(response, loadedPointCount)
         point == [id |-> loadedPointCount, x |-> pos[1], y |-> pos[2]]
         pending == Append(pendingDataPoints, point)
         count == loadedPointCount + 1
     IN /\ loadedPointCount' = count
        /\ IF Len(pending) > POINT_THRESHOLD
             THEN /\ posted' = Append(posted, TransferLoadData(pending, FALSE, count))
                  /\ sentPointCount' = sentPointCount + Len(pending)
                  /\ lastDrawnPoints' = Some(pending)
                  /\ pendingDataPoints' = <<>>
             ELSE /\ pendingDataPoints' = pending
                  /\ UNCHANGED <<posted, sentPointCount, lastDrawnPoints>>
  /\ UNCHANGED <<loaderInbox, response, loaderState, loaderErrors, treeVars, uiVars>>
\* processPointStream for one record of the stream
processPointStream ==
  /\ loaderState = "streaming"
  /\ loadedPointCount < MaxRecords
  /\ LET pos == RawPosition(response, loadedPointCount)
         point == [id |-> loadedPointCount, x |-> pos[1], y |-> pos[2]]
         pending == Append(pendingDataPoints, point)
         count == loadedPointCount + 1
     IN /\ loadedPointCount' = count
        /\ IF Len(pending) >= POINT_THRESHOLD
             THEN /\ posted' = Append(posted, TransferLoadData(pending, FALSE, count))
                  /\ sentPointCount' = sentPointCount + Len(pending)
                  /\ lastDrawnPoints' = Some(pending)
                  /\ pendingDataPoints' = <<>>
             ELSE /\ pendingDataPoints' = pending
                  /\ UNCHANGED <<posted, sentPointCount, lastDrawnPoints>>
  /\ UNCHANGED <<loaderInbox, response, loaderState, loaderErrors, treeVars, uiVars>>

\* (mutant: the catch flushes what is pending)
streamErrorFlush ==
  /\ loaderState = "streaming"
  /\ loaderState' = "failed"
  /\ loaderErrors' = loaderErrors + 1
  /\ posted' = Append(posted, TransferLoadData(pendingDataPoints, TRUE, loadedPointCount))
  /\ pendingDataPoints' = <<>>
  /\ UNCHANGED <<loaderInbox, response, loadedPointCount,
                 sentPointCount, lastDrawnPoints, treeVars, uiVars>>
\* A read of the stream rejects, or a record throws while it is parsed: the
\* promise chain of startLoadData ends in its catch, which logs.
streamError ==
  /\ loaderState = "streaming"
  /\ loaderState' = "failed"
  /\ loaderErrors' = loaderErrors + 1
  /\ UNCHANGED <<loaderInbox, response, pendingDataPoints, loadedPointCount,
                 sentPointCount, lastDrawnPoints, posted, treeVars, uiVars>>

\* pointStreamFinished: whatever is pending goes out as the last batch
pointStreamFinished ==
  /\ loaderState = "streaming"
  /\ loaderState' = "done"
  /\ posted' = Append(posted, TransferLoadData(pendingDataPoints, TRUE, loadedPointCount))
  /\ sentPointCount' = sentPointCount + Len(pendingDataPoints)
  /\ lastDrawnPoints' = Some(pendingDataPoints)
  /\ pendingDataPoints' = <<>>
  /\ UNCHANGED <<loaderInbox, response, loadedPointCount, loaderErrors, treeVars, uiVars>>

(***************************************************************************)
(* UI thread: start-up handshake                                           *)
(***************************************************************************)
\* Scales that drawContour may compute for the first view.
InitZoomKs == {KOne + KOne \div 5}

\* initData: the grid gives the scales, the contours and the first zoom;
\* the tree worker is told to prepare; the raster matrices are set up.
initDataLoaded(u, initZoomK) ==
  LET u1 == [u EXCEPT !.initStage = "ready",
                      !.initZoomTransform = Transform(initZoomK, GridStep)]
      u2 == zoomTransformCall(u1, u1.initZoomTransform)
  IN [u2 EXCEPT !.toTree = Append(u2.toTree, "initQuadtree"),
                !.webGLMatrices = TRUE]

initData(gridLoaded, initZoomK) ==
  /\ ui.initStage = "constructed"
  /\ ui' = IF ~gridLoaded THEN [ui EXCEPT !.initStage = "failed"]
                          ELSE initDataLoaded(ui, initZoomK)
  /\ UNCHANGED <<loaderVars, treeVars, handled, treeToUIHandled>>

\* Tree worker: initQuadtree, the first message it gets, is answered with
\* finishInitQuadtree; what it does with updateQuadtree stays inside it.
treeWorkerOnMessage ==
  /\ treeHandled < Len(ui.toTree)
  /\ ui.toTree[treeHandled + 1] = "initQuadtree"
  /\ treeHandled' = treeHandled + 1
  /\ treeToUI' = Append(treeToUI, "finishInitQuadtree")
  /\ UNCHANGED <<searchWorker, searchPanel, loaderVars, uiVars>>

\* treeWorkerMessageHandler, finishInitQuadtree: the loader is started
\* (mutant: the loader is started as soon as initQuadtree was posted).
startLoadDataEarly ==
  /\ treeToUIHandled = 0
  /\ Len(ui.toTree) > 0
  /\ treeToUIHandled' = 1
  /\ loaderInbox' = Append(loaderInbox, "startLoadData")
  /\ UNCHANGED <<response, loaderState, pendingDataPoints, loadedPointCount,
                 sentPointCount, lastDrawnPoints, loaderErrors, posted,
                 treeVars, handled, ui>>
treeWorkerMessageHandler ==
  /\ treeToUIHandled < Len(treeToUI)
  /\ treeToUIHandled' = treeToUIHandled + 1
  /\ loaderInbox' = IF treeToUI[treeToUIHandled + 1] = "finishInitQuadtree"
                      THEN Append(loaderInbox, "startLoadData")
                      ELSE loaderInbox
  /\ ui' = IF treeToUI[treeToUIHandled + 1] \in Recognised.treeWorkerMessageHandler
             THEN ui
             ELSE consoleError(ui)
  /\ UNCHANGED <<response, loaderState, pendingDataPoints, loadedPointCount,
                 sentPointCount, lastDrawnPoints, loaderErrors, posted,
                 treeVars, handled>>

(***************************************************************************)
(* UI thread: batches                                                      *)
(***************************************************************************)
\* A later batch is pushed onto the collection (mutants: it replaces it;
\* it is put in front).
replacePoints(u, newPoints) == [u EXCEPT !.promptPoints = newPoints]
unshiftPoints(u, newPoints) ==
  [u EXCEPT !.promptPoints = newPoints \o u.promptPoints]
pushPoints(u, newPoints) ==
  [u EXCEPT !.promptPoints = u.promptPoints \o newPoints]

\* The pre snapshot is taken from the points as they are now (mutant: a
\* point that has an entry keeps it).
keepPreSimPositions(u) ==
  LET now == PositionMap(u.promptPoints)
  IN [u EXCEPT !.preSimPositions =
        Some([id \in DOMAIN now |->
                IF ~u.preSimPositions.null /\ id \in DOMAIN u.preSimPositions.val
                  THEN u.preSimPositions.val[id] ELSE now[id]])]
\* (mutant: a snapshot that is held is not taken again)
captureFirstPreSimPositions(u) ==
  IF u.preSimPositions.null
    THEN [u EXCEPT !.preSimPositions = Some(PositionMap(u.promptPoints))]
    ELSE u
capturePreSimPositions(u) ==
  [u EXCEPT !.preSimPositions = Some(PositionMap(u.promptPoints))]

\* An animation in flight is cancelled by a later batch (mutant: it is left
\* running).
keepDispersalAnimation(u) == u
cancelDispersalAnimation(u) ==
  IF u.isAnimatingDispersal /\ u.animationFrameId
    THEN [u EXCEPT !.animationFrameId = FALSE, !.isAnimatingDispersal = FALSE]
    ELSE u

\* loaderWorkerMessageHandler, transferLoadData
transferLoadData(u, payload) ==
  LET u0 == [u EXCEPT !.toTree = Append(u.toTree, "updateQuadtree"),
                      !.toSearch = @ \cup {payload.points[i].id :
                                             i \in DOMAIN payload.points}]
      first ==
        LET a == [u0 EXCEPT !.promptPoints = payload.points]
            b == capturePreSimPositions(a)
            c == updateSimulation(initWebGLBuffers(b))
        IN IF c.showPoints THEN drawScatterPlot(c, FALSE) ELSE c
      later ==
        LET a == pushPoints(u0, payload.points)
            b == updateWebGLBuffers(a, payload.points)
            c == cancelDispersalAnimation(b)
            d == capturePreSimPositions(c)
            \* forceSimulation exists once the first batch was handled
            e == IF d.simulation THEN updateSimulation(d) ELSE d
            f == IF e.showPoints THEN drawScatterPlot(e, FALSE) ELSE e
        IN IF payload.isLastBatch THEN rebuildPointQuadtree(f) ELSE f
      v == IF payload.isFirstBatch THEN first ELSE later
  IN [v EXCEPT !.loadedPointCount = Len(v.promptPoints)]

loaderWorkerMessageHandler ==
  /\ handled < Len(posted)
  /\ handled' = handled + 1
  /\ ui' = transferLoadData(ui, posted[handled + 1])
  /\ UNCHANGED <<loaderVars, treeVars, treeToUIHandled>>

(***************************************************************************)
(* UI thread: simulation ticks and animation frames                       *)
(***************************************************************************)
Displace(points, i, delta) ==
  [j \in DOMAIN points |->
     IF j = i THEN [points[j] EXCEPT !.x = points[j].x + delta[1],
                                     !.y = points[j].y + delta[2]]
              ELSE points[j]]

\* The callback registered with onEnd by initForceSimulation
onEndCallback(u) ==
  onSimulationComplete([u EXCEPT !.onEndCalls = Min(u.onEndCalls + 1, 2)])

\* What one step of the d3 simulation does before the tick listener decides:
\* alpha decays, the forces displace the nodes (here one node per step,
\* taken in turn) and the listener counts the step.
simulationStep(u, delta) ==
  LET i == IF Len(u.promptPoints) = 0 THEN 0
           ELSE (u.iterationCount % Len(u.promptPoints)) + 1
  IN [u EXCEPT !.alpha = u.alpha - u.alpha \div AlphaDecayDen,
               !.promptPoints = Displace(u.promptPoints, i, delta),
               !.iterationCount = u.iterationCount + 1]

\* The early-stopping condition of the tick listener
shouldStop(u) == u.alpha < AlphaMin \/ u.iterationCount >= MaxIterations

\* One step and the tick listener (mutants: the listener calls the end
\* callback without stopping the simulation; the listener only looks at
\* the iteration cap).
tickWithoutStop(u, delta) ==
  LET u1 == simulationStep(u, delta)
  IN IF shouldStop(u1) THEN onEndCallback(u1) ELSE u1
tickCapOnly(u, delta) ==
  LET u1 == simulationStep(u, delta)
  IN IF u1.iterationCount >= MaxIterations
       THEN onEndCallback(stopSimulation(u1)) ELSE u1
tick(u, delta) ==
  LET u1 == simulationStep(u, delta)
  IN IF shouldStop(u1) THEN onEndCallback(stopSimulation(u1)) ELSE u1

simulationTick(delta) ==
  /\ ui.simTimer
  /\ ui' = tick(ui, delta)
  /\ UNCHANGED <<loaderVars, treeVars, handled, treeToUIHandled>>

\* The frame callback of the dispersal animation
animationFrame(elapsed) ==
  /\ ui.animationFrameId
  /\ elapsed > ui.animElapsed
  /\ ui' = animate([ui EXCEPT !.animationFrameId = FALSE], elapsed)
  /\ UNCHANGED <<loaderVars, treeVars, handled, treeToUIHandled>>

\* The frame callback of zoomed()
zoomFrameCallback ==
  /\ ui.frameCallbacks.zoom > 0
  /\ ui' = zoomFrame(ui)
  /\ UNCHANGED <<loaderVars, treeVars, handled, treeToUIHandled>>

\* The deferred-zoom timer of Safari fires.
deferredZoomTimer ==
  /\ ui.deferredZoomTimeout
  /\ ui' = [performDeferredZoomOperations(ui) EXCEPT !.deferredZoomTimeout = FALSE]
  /\ UNCHANGED <<loaderVars, treeVars, handled, treeToUIHandled>>

\* The debounce timer of the footer fires: the footer store gets the scale.
zoomTimer ==
  /\ ui.zoomTimeout
  /\ ui' = [ui EXCEPT !.zoomTimeout = FALSE]
  /\ UNCHANGED <<loaderVars, treeVars, handled, treeToUIHandled>>

\* Time passes: the throttles' clocks move on.
AdvanceTime ==
  /\ \/ ui.sinceDraw < DRAW_THROTTLE
     \/ ui.sinceZoom < ZOOM_THROTTLE
     \/ ui.sinceMouseMove < MOUSE_MOVE_THROTTLE
  /\ ui' = [ui EXCEPT !.sinceDraw = Min(ui.sinceDraw + TimeQuantum, DRAW_THROTTLE),
                      !.sinceZoom = Min(ui.sinceZoom + TimeQuantum, ZOOM_THROTTLE),
                      !.sinceMouseMove = Min(ui.sinceMouseMove + TimeQuantum,
                                             MOUSE_MOVE_THROTTLE)]
  /\ UNCHANGED <<loaderVars, treeVars, handled, treeToUIHandled>>

(***************************************************************************)
(* Zoom behaviour registered on topSvg: gestures and transitions           *)
(***************************************************************************)
\* Largest number of user inputs of one session.
MaxInputs == 2
\* Number of zoom events one transition emits (the last one is its target).
TransitionSteps == 2

\* scaleExtent([kMin, kMax]) as the behaviour applies it to gestures
ClampK(k) == Max(KMin, Min(KMax, k))

\* Centre of the visible viewport, in screen coordinates: the scales fit
\* the data range to the svg.
ViewCenter == 1 * GridStep
\* Width of the viewport in data coordinates at scale k (getCurViewRanges).
ViewWidth(k) == (2 * ViewCenter * KOne) \div k

\* zoomIdentity.translate(c).scale(k).translate(-p)
CenterOn(k, p) == Transform(k, ViewCenter - (k * p) \div KOne)
\* Centre of the current view in untransformed coordinates
ViewCentre(u) == ((ViewCenter - u.curZoomTransform.x) * KOne) \div u.curZoomTransform.k

\* A running transition of topSvg ends when another one starts on it or a
\* gesture begins: zoom's interrupt listener ends the gesture (zoomEnded);
\* the 'end' listener given by the caller is not called.
interrupt(u) ==
  IF u.transition.null THEN u
  ELSE zoomEnded([u EXCEPT !.transition = Null, !.gesture = "none"])

\* topSvg.transition()...call(zoom.transform, target).on('end', onEnd)
startTransition(u, target, onEnd, final) ==
  LET u1 == interrupt(u)
  IN [u1 EXCEPT !.gesture = "transition",
                !.transition = Some([from |-> u1.zoomTransform, to |-> target,
                                     step |-> 0, onEnd |-> onEnd, final |-> final])]

\* View interpolation of d3.interpolate between two transforms: the width
\* of the view is linear in t, so 1/k is.
InterpolateK(a, b, n) ==
  (TransitionSteps * a * b) \div (n * a + (TransitionSteps - n) * b)
InterpolateX(a, b, n) == a + ((b - a) * n) \div TransitionSteps

\* Footer buttons
footerZoomIn(u) ==
  startTransition([u EXCEPT !.hideHighlights = TRUE],
                  CenterOn(Min(KMax, u.curZoomTransform.k * 2), ViewCentre(u)),
                  "show", zoomIdentity)
footerZoomOut(u) ==
  startTransition([u EXCEPT !.hideHighlights = TRUE],
                  CenterOn(Max(KMin, u.curZoomTransform.k \div 2), ViewCentre(u)),
                  "show", zoomIdentity)
footerZoomReset(u) ==
  startTransition([u EXCEPT !.hideHighlights = TRUE], u.initZoomTransform,
                  "show", zoomIdentity)

\* Double click on topSvg: back to the first view, no 'end' listener
dblclick(u) == startTransition(u, u.initZoomTransform, "none", zoomIdentity)

\* Scale a selection zooms to: 4 x the current one, at least 4, at most kMax
TargetZoomLevel(u) == Min(KMax, Max(u.curZoomTransform.k * 4, 4 * KOne))

zoomToPoint(u, point) ==
  startTransition([u EXCEPT !.hideHighlights = TRUE],
                  CenterOn(TargetZoomLevel(u), Screen(point.x)), "show", zoomIdentity)

zoomToFullView(u) ==
  startTransition([u EXCEPT !.hideHighlights = TRUE], u.initZoomTransform,
                  "show", zoomIdentity)

smoothPanToPoint(u, point, zoomLevel) ==
  startTransition(u, CenterOn(zoomLevel, Screen(point.x)), "show", zoomIdentity)

\* intermediateZoom is num/10: 0.8 or 0.5
zoomOutThenZoomToPoint(u, point, intermediateNum, finalZoom) ==
  LET intermediateX == (ViewCentre(u) + Screen(point.x)) \div 2
  IN startTransition(u,
       CenterOn((u.curZoomTransform.k * intermediateNum) \div 10, intermediateX),
       "zoomIn", CenterOn(finalZoom, Screen(point.x)))

Abs(n) == IF n < 0 THEN 0 - n ELSE n

smartZoomToPoint(u, newPoint, oldPoint) ==
  LET dx == newPoint.x - oldPoint.x
      dy == newPoint.y - oldPoint.y
      maxViewDimension == ViewWidth(u.curZoomTransform.k)
      finalZoomLevel == TargetZoomLevel(u)
      u1 == [u EXCEPT !.hideHighlights = TRUE]
  IN IF 16 * (dx * dx + dy * dy) < maxViewDimension * maxViewDimension
       THEN smoothPanToPoint(u1, newPoint, finalZoomLevel)
     ELSE IF 4 * (dx * dx + dy * dy) < maxViewDimension * maxViewDimension
       THEN zoomOutThenZoomToPoint(u1, newPoint, 8, finalZoomLevel)
     ELSE zoomOutThenZoomToPoint(u1, newPoint, 5, finalZoomLevel)

\* selectPointWithSmartZoom(newPoint, oldPoint)
selectPointWithSmartZoom(u, newPoint, oldPoint) ==
  smartZoomToPoint(selectPoint(u, Some(newPoint.id)), newPoint, oldPoint)

\* searchBarStoreValue.selectSearchPoint(point, oldPoint, zoomOut) with a
\* point; oldPoint is Null if the panel had no selection
selectSearchPoint(u, point, oldPoint) ==
  IF u.clickedPoint = Some(point.id) THEN selectPoint(u, Null)
  ELSE IF ~oldPoint.null /\ oldPoint.val.id # point.id
    THEN selectPointWithSmartZoom(u, point, oldPoint.val)
  ELSE zoomToPoint(selectPoint(u, Some(point.id)), point)

(***************************************************************************)
(* Ingestion: from construction to the last animation frame                *)
(***************************************************************************)
Init ==
  /\ loaderInbox = <<>>
  /\ response = ""
  /\ loaderState = "idle"
  /\ pendingDataPoints = <<>>
  /\ loadedPointCount = 0
  /\ sentPointCount = 0
  /\ lastDrawnPoints = Null
  /\ loaderErrors = 0
  /\ posted = <<>>
  /\ treeHandled = 0
  /\ treeToUI = <<>>
  /\ searchWorker = [handled |-> 0, index |-> {}, errors |-> 0]
  /\ searchPanel = InitSearchPanel
  /\ handled = 0
  /\ treeToUIHandled = 0
  /\ \E safari \in BOOLEAN : ui = InitUI(safari, TRUE)

Next ==
  \/ \E g \in BOOLEAN, k \in InitZoomKs : initData(g, k)
  \/ treeWorkerOnMessage
  \/ treeWorkerMessageHandler
  \/ loaderOnMessage
  \/ \E ok \in BOOLEAN, body \in Responses : startLoadData(ok, body)
  \/ processPointStream
  \/ streamError
  \/ pointStreamFinished
  \/ loaderWorkerMessageHandler
  \/ \E d \in TickDeltas : simulationTick(d)
  \/ \E e \in 1..FramesPerAnimation : animationFrame(e)
  \/ zoomFrameCallback
  \/ deferredZoomTimer
  \/ zoomTimer
  \/ AdvanceTime

Spec == Init /\ [][Next]_vars

(***************************************************************************)
(* Zooming a loaded map                                                    *)
(***************************************************************************)
\* Factors num/den one wheel event can ask for; the last one is far beyond
\* the scale extent.
WheelFactors == {<<2, 1>>, <<1, 2>>, <<64, 1>>}
\* Distances one drag event can pan by.
DragDeltas == {GridStep}

\* Wheel event on topSvg: the scale is clamped to the scale extent; without
\* a gesture in progress an unchanged scale is no event at all.
wheeled(factor) ==
  /\ ui.inputs < MaxInputs
  /\ LET t == ui.zoomTransform
         k == ClampK((t.k * factor[1]) \div factor[2])
         target == Transform(k, (t.x * k) \div t.k)
         u1 == IF ui.gesture = "user" THEN ui ELSE interrupt(ui)
     IN /\ ui.gesture = "user" \/ t.k # k
        /\ ui' = zoomed([u1 EXCEPT !.gesture = "user",
                                   !.zoomTransform = target,
                                   !.inputs = ui.inputs + 1], target)
  /\ UNCHANGED <<loaderVars, treeVars, handled, treeToUIHandled>>

\* Mouse drag on topSvg: one move of the pointer
dragged(dx) ==
  /\ ui.inputs < MaxInputs
  /\ LET u1 == IF ui.gesture = "user" THEN ui ELSE interrupt(ui)
         target == Transform(ui.zoomTransform.k, ui.zoomTransform.x + dx)
     IN ui' = zoomed([u1 EXCEPT !.gesture = "user",
                                !.zoomTransform = target,
                                !.inputs = ui.inputs + 1], target)
  /\ UNCHANGED <<loaderVars, treeVars, handled, treeToUIHandled>>

\* The gesture ends (button released, wheel idle): 'end' is emitted
gestureEnd ==
  /\ ui.gesture = "user"
  /\ ui' = zoomEnded([ui EXCEPT !.gesture = "none"])
  /\ UNCHANGED <<loaderVars, treeVars, handled, treeToUIHandled>>

\* One timer tick of the running transition: a zoom event with the
\* interpolated transform; the last one carries the target and is followed
\* by 'end', first for the zoom behaviour, then for the caller's listener.
transitionTick ==
  /\ ~ui.transition.null
  /\ LET tr == ui.transition.val
         n == tr.step + 1
         t == IF n >= TransitionSteps THEN tr.to
              ELSE Transform(InterpolateK(tr.from.k, tr.to.k, n),
                             InterpolateX(tr.from.x, tr.to.x, n))
         u1 == zoomed([ui EXCEPT !.zoomTransform = t], t)
         u2 == zoomEnded([u1 EXCEPT !.transition = Null, !.gesture = "none"])
     IN ui' = IF n < TransitionSteps
                THEN [u1 EXCEPT !.transition = Some([tr EXCEPT !.step = n])]
              ELSE IF tr.onEnd = "show" THEN [u2 EXCEPT !.hideHighlights = FALSE]
              ELSE IF tr.onEnd = "zoomIn"
                THEN startTransition(u2, tr.final, "show", zoomIdentity)
              ELSE u2
  /\ UNCHANGED <<loaderVars, treeVars, handled, treeToUIHandled>>

\* A command of the footer store
footerCommand(command) ==
  /\ ui.inputs < MaxInputs
  /\ ui.gesture # "user"
  /\ LET u1 == [ui EXCEPT !.inputs = ui.inputs + 1]
     IN ui' = IF command = "zoomIn" THEN footerZoomIn(u1)
              ELSE IF command = "zoomOut" THEN footerZoomOut(u1)
              ELSE footerZoomReset(u1)
  /\ UNCHANGED <<loaderVars, treeVars, handled, treeToUIHandled>>

doubleClick ==
  /\ ui.inputs < MaxInputs
  /\ ui.gesture # "user"
  /\ ui' = dblclick([ui EXCEPT !.inputs = ui.inputs + 1])
  /\ UNCHANGED <<loaderVars, treeVars, handled, treeToUIHandled>>

\* The search panel selects a result (old = 0: nothing was selected before)
searchSelect(new, old) ==
  /\ ui.inputs < MaxInputs
  /\ ui.gesture # "user"
  /\ new \in DOMAIN ui.promptPoints
  /\ old \in {0} \cup DOMAIN ui.promptPoints
  /\ LET u1 == [ui EXCEPT !.inputs = ui.inputs + 1]
     IN ui' = selectSearchPoint(u1, ui.promptPoints[new],
                IF old = 0 THEN Null ELSE Some(ui.promptPoints[old]))
  /\ UNCHANGED <<loaderVars, treeVars, handled, treeToUIHandled>>

\* The search panel drops the selection and asks for the full view
searchDeselect ==
  /\ ui.inputs < MaxInputs
  /\ ui.gesture # "user"
  /\ ui' = zoomToFullView(selectPoint([ui EXCEPT !.inputs = ui.inputs + 1], Null))
  /\ UNCHANGED <<loaderVars, treeVars, handled, treeToUIHandled>>

\* searchWorkerMessageHandler, finishQuery: the result canvas is shown
finishQuery ==
  /\ ui.inputs < MaxInputs
  /\ ui.searchCanvasHidden
  /\ ui' = drawSearchScatterPlot([ui EXCEPT !.searchCanvasHidden = FALSE,
                                           !.searchPointResults = ResultPoints(ui),
                                           !.inputs = ui.inputs + 1])
  /\ UNCHANGED <<loaderVars, treeVars, handled, treeToUIHandled>>

\* The map once a stream of POINT_THRESHOLD records went through: one full
\* batch, the empty last batch, one layout run, one animation.
LoadedBatch ==
  [isFirstBatch |-> TRUE, isLastBatch |-> FALSE,
   points |-> [n \in 1..POINT_THRESHOLD |->
                 [id |-> n - 1, x |-> RawPosition("spread", n - 1)[1],
                  y |-> RawPosition("spread", n - 1)[2]]],
   loadedPointCount |-> POINT_THRESHOLD]
LastBatch ==
  [isFirstBatch |-> FALSE, isLastBatch |-> TRUE, points |-> <<>>,
   loadedPointCount |-> POINT_THRESHOLD]

RECURSIVE Ticks(_)
Ticks(u) == IF u.simTimer THEN Ticks(tick(u, <<GridStep, 0>>)) ELSE u

Rested(u) == [u EXCEPT !.sinceDraw = DRAW_THROTTLE, !.sinceZoom = ZOOM_THROTTLE,
                       !.deferredZoomTimeout = FALSE, !.zoomTimeout = FALSE]

LoadedUI(safari) ==
  LET a == Rested(zoomFrame(initDataLoaded(InitUI(safari, TRUE), CHOOSE k \in InitZoomKs : TRUE)))
      b == transferLoadData(transferLoadData(a, LoadedBatch), LastBatch)
      c == animate([Ticks(b) EXCEPT !.animationFrameId = FALSE, !.sinceDraw = DRAW_THROTTLE],
                   FramesPerAnimation)
  IN Rested(c)

InitZoom ==
  /\ loaderInbox = <<>>
  /\ response = "spread"
  /\ loaderState = "done"
  /\ pendingDataPoints = <<>>
  /\ loadedPointCount = POINT_THRESHOLD
  /\ sentPointCount = POINT_THRESHOLD
  /\ lastDrawnPoints = Some(<<>>)
  /\ loaderErrors = 0
  /\ posted = <<LoadedBatch, LastBatch>>
  /\ treeHandled = 1
  /\ treeToUI = <<"finishInitQuadtree">>
  /\ searchWorker = [handled |-> 0, index |-> {}, errors |-> 0]
  /\ searchPanel = InitSearchPanel
  /\ handled = 2
  /\ treeToUIHandled = 1
  /\ \E safari \in BOOLEAN : ui = LoadedUI(safari)

NextZoom ==
  \/ \E f \in WheelFactors : wheeled(f)
  \/ \E dx \in DragDeltas : dragged(dx)
  \/ gestureEnd
  \/ transitionTick
  \/ \E c \in {"zoomIn", "zoomOut", "zoomReset"} : footerCommand(c)
  \/ doubleClick
  \/ \E new \in 1..MaxRecords, old \in 0..MaxRecords : searchSelect(new, old)
  \/ searchDeselect
  \/ finishQuery
  \/ zoomFrameCallback
  \/ deferredZoomTimer
  \/ zoomTimer
  \/ AdvanceTime

SpecZoom == InitZoom /\ [][NextZoom]_vars

\* Scheduling of the browser: a requested frame callback runs, a timer that
\* was set fires, a running transition ticks, and time passes; a gesture of
\* the user ends (d3-zoom's idle timer ends a wheel gesture, the release of
\* the button a drag).
ZoomFairness ==
  /\ []<>(ui.gesture # "user") \/ []<><<gestureEnd>>_vars
  /\ []<>(ui.frameCallbacks.zoom = 0) \/ []<><<zoomFrameCallback>>_vars
  /\ []<>(~ui.deferredZoomTimeout) \/ []<><<deferredZoomTimer>>_vars
  /\ []<>(~ui.zoomTimeout) \/ []<><<zoomTimer>>_vars
  /\ []<>(ui.transition.null) \/ []<><<transitionTick>>_vars

SpecZoomFair ==
  /\ InitZoom
  /\ [][NextZoom]_vars
  /\ ZoomFairness
  /\ WF_vars(AdvanceTime)

(***************************************************************************)
(* Properties of the ingestion                                             *)
(***************************************************************************)
PointIds(points) == [i \in DOMAIN points |-> points[i].id]
Position(pt) == <<pt.x, pt.y>>
StreamEnded == loaderState = "done"
AllHandled == handled = Len(posted)

\* C1: once the stream has ended and every emitted batch is handled, the
\* live collection has as many points as the loader parsed records, and
\* their ids are 0, 1, ..., n-1 in arrival order.
C1_FinalCollection ==
  (StreamEnded /\ AllHandled) =>
    /\ Len(ui.promptPoints) = loadedPointCount
    /\ ui.loadedPointCount = loadedPointCount
    /\ \A i \in DOMAIN ui.promptPoints : ui.promptPoints[i].id = i - 1

\* C1 happens: a stream of several batches has been taken in completely.
C1_Witness ==
  /\ StreamEnded /\ AllHandled
  /\ Len(posted) >= 2
  /\ Len(ui.promptPoints) > POINT_THRESHOLD

\* C2: the loader emits, in stream order, floor(N/T) batches of exactly T
\* points and at the end of the stream one last batch with the N mod T
\* remaining points; only that one is tagged isLastBatch and only the first
\* emitted batch is tagged isFirstBatch.
C2_Batches ==
  /\ \A j \in DOMAIN posted :
       /\ posted[j].isFirstBatch <=> j = 1
       /\ posted[j].isLastBatch <=> (StreamEnded /\ j = Len(posted))
       /\ ~posted[j].isLastBatch => Len(posted[j].points) = POINT_THRESHOLD
       /\ \A i \in DOMAIN posted[j].points :
            posted[j].points[i].id = (j - 1) * POINT_THRESHOLD + i - 1
  /\ loaderState = "streaming" => Len(posted) = loadedPointCount \div POINT_THRESHOLD
  /\ StreamEnded =>
       /\ Len(posted) = loadedPointCount \div POINT_THRESHOLD + 1
       /\ Len(posted[Len(posted)].points) = loadedPointCount % POINT_THRESHOLD

\* C2 happens: a stream ended after a full batch with a remainder.
C2_Witness ==
  /\ StreamEnded
  /\ Len(posted) >= 2
  /\ Len(posted[Len(posted)].points) > 0
  /\ Len(posted[Len(posted)].points) < POINT_THRESHOLD

\* A batch is handled while an animation is in flight.
Interruption ==
  /\ handled' = handled + 1
  /\ ui.isAnimatingDispersal /\ ui.animationFrameId

\* An animation starts.
AnimationStart == ~ui.isAnimatingDispersal /\ ui'.isAnimatingDispersal

Finalization ==
  /\ ui.isAnimatingDispersal
  /\ ~ui'.isAnimatingDispersal
  /\ ui'.postSimPositions.null

\* C5: when an animation finalizes, every point is exactly at the entry that
\* the post snapshot holds for its id, whatever frames were rendered.
C5_SnapToPost ==
  [][ Finalization =>
        /\ Len(ui'.promptPoints) = Len(ui.promptPoints)
        /\ \A i \in DOMAIN ui'.promptPoints :
             LET pt == ui'.promptPoints[i] IN
             /\ pt.id \in DOMAIN ui.postSimPositions.val
             /\ Position(pt) = ui.postSimPositions.val[pt.id]
    ]_vars

\* C5 happens: an animation has finalized and left a point where the layout
\* put it, away from its raw coordinate.
C5_Witness ==
  /\ handled > 0
  /\ ~ui.isAnimatingDispersal /\ ~ui.simTimer
  /\ ui.preSimPositions.null /\ ui.postSimPositions.null
  /\ \E i \in DOMAIN ui.promptPoints :
       Position(ui.promptPoints[i]) # RawPosition(response, ui.promptPoints[i].id)

\* C9: once a batch has been handled, be it the first, an intermediate or
\* the last one, pointQuadtree has been rebuilt from all of promptPoints and
\* holds every point loaded so far.
C9_IndexAfterEveryBatch ==
  handled > 0 =>
    /\ ~ui.pointQuadtree.null
    /\ PointIds(ui.pointQuadtree.val) = PointIds(ui.promptPoints)

RECURSIVE PointsOfBatches(_, _)
PointsOfBatches(batches, n) ==
  IF n = 0 THEN <<>> ELSE PointsOfBatches(batches, n - 1) \o batches[n].points

\* C10: a failure of the fetch or of the stream is reported once, no batch
\* is emitted at or after the failure, and the points of the batches emitted
\* before it stay in the collection of the UI thread, in order.
C10_FailureOnce ==
  /\ [](loaderErrors = IF loaderState = "failed" THEN 1 ELSE 0)
  /\ [][loaderState' = "failed" => posted' = posted]_vars
  /\ []((loaderState = "failed" /\ AllHandled) =>
          PointIds(ui.promptPoints) = PointIds(PointsOfBatches(posted, Len(posted))))
  /\ [][loaderState = "failed" =>
          \A i \in DOMAIN ui.promptPoints :
            /\ i \in DOMAIN ui'.promptPoints
            /\ ui'.promptPoints[i].id = ui.promptPoints[i].id]_vars

\* C10 happens: the stream failed with records pending, after a batch had
\* been emitted, and the UI thread has that batch.
C10_Witness ==
  /\ loaderState = "failed" /\ AllHandled
  /\ pendingDataPoints # <<>>
  /\ Len(ui.promptPoints) >= POINT_THRESHOLD

(***************************************************************************)
(* Properties of zooming                                                   *)
(***************************************************************************)
\* C3: in every reachable state the scale of curZoomTransform lies within
\* [kMin, kMax], whatever gestures and programmatic zooms produced it.
C3_ScaleWithinExtent ==
  /\ ui.curZoomTransform.k >= KMin
  /\ ui.curZoomTransform.k <= KMax

\* C6: once the gesture has ended and no frame callback is pending,
\* curZoomTransform is the transform of the last zoom event delivered, which
\* is the transform the zoom behaviour holds.
C6_LatestTransformApplied ==
  (ui.gesture = "none" /\ ~ui.zoomRafPending) =>
    ui.curZoomTransform = ui.zoomTransform

\* A gesture ends: zoomEnded runs and leaves no gesture behind.
GestureEnds == ui.gesture # "none" /\ ui'.gesture = "none"

\* C7: when a gesture ends, zoomEnded leaves no deferred timer pending and
\* has redrawn in full, so that right after it the rendered frame (the
\* groups and the point overlay) shows the final transform of the gesture.
C7_FinalFrameAtZoomEnd ==
  [][ GestureEnds =>
        /\ ~ui'.deferredZoomTimeout
        /\ ui'.umapGroup = ui'.zoomTransform
        /\ ui'.topGroup = ui'.zoomTransform
        /\ ui'.pointsGroup = Some(ui'.zoomTransform)
    ]_vars

\* A frame callback of zoomed() runs.
ZoomFrameProcessed == ui.zoomRafPending /\ ~ui'.zoomRafPending

\* C8: after every processed zoom frame .umap-group, .top-group, g.points
\* and the raster pass of the shown search results carry one transform,
\* curZoomTransform.
C8_SurfacesInStep ==
  [][ ZoomFrameProcessed =>
        /\ ui'.umapGroup = ui'.curZoomTransform
        /\ ui'.topGroup = ui'.curZoomTransform
        /\ ~ui'.pointsGroup.null => ui'.pointsGroup.val = ui'.curZoomTransform
        /\ ~ui'.searchCanvasHidden => ui'.searchPass = Some(ui'.curZoomTransform)
    ]_vars

(***************************************************************************)
(* Pointer: hover, click and zoom on a loaded map                          *)
(***************************************************************************)
\* User inputs of a pointer session
MaxPointerInputs == 4

\* Screen distances, below a point, at which the pointer is put: on the
\* point, at twice the point width, one pixel further.
PointerOffsets == {0, 2 * PointWidthCap, 2 * PointWidthCap + 1}

\* offsetX, offsetY of a pointer that is off pixels below point i
PointerAt(u, i, off) ==
  <<applyX(u.curZoomTransform, Screen(u.promptPoints[i].x)),
    applyY(u.curZoomTransform, u.promptPoints[i].y) + off>>

\* mousemoveHandler(e) (mutant: the pending callback is not looked at)
mousemoveHandlerUnguarded(u, pos) ==
  IF u.sinceMouseMove < MOUSE_MOVE_THROTTLE THEN u
  ELSE [u EXCEPT !.sinceMouseMove = 0, !.rafPending = TRUE, !.rafEvent = pos,
                 !.frameCallbacks.mouse = @ + 1]
mousemoveHandler(u, pos) ==
  IF u.sinceMouseMove < MOUSE_MOVE_THROTTLE THEN u
  ELSE IF u.rafPending THEN [u EXCEPT !.sinceMouseMove = 0]
  ELSE [u EXCEPT !.sinceMouseMove = 0, !.rafPending = TRUE, !.rafEvent = pos,
                 !.frameCallbacks.mouse = @ + 1]

\* The callback that mousemoveHandler hands to requestAnimationFrame
\* (labels are not part of the state)
mousemoveFrame(u) ==
  LET u1 == [u EXCEPT !.lastMouseClientPosition = Some(u.rafEvent)]
      u2 == IF u1.showPoints /\ ~u1.hideHighlights
              THEN mouseoverPoint(u1, u.rafEvent[1], u.rafEvent[2])
              ELSE u1
  IN [u2 EXCEPT !.rafPending = FALSE, !.frameCallbacks.mouse = @ - 1]

\* clickHandler(e) of topSvg
clickHandler(u, pos) ==
  LET u1 == [u EXCEPT !.lastMouseClientPosition = Some(pos)]
  IN IF u1.hoverPoint.null THEN u1
     ELSE IF u1.clickedPoint = u1.hoverPoint THEN selectPoint(u1, Null)
     ELSE selectPoint(u1, u1.hoverPoint)

\* The click listener of a mark (it stops the event; clickHandler of topSvg
\* does not see it)
markClicked(u, id) ==
  IF u.clickedPoint = Some(id) THEN selectPoint(u, Null)
                               ELSE selectPoint(u, Some(id))

\* The callbacks of the two hover-leave timers
mouseoutTimerCallback(u) == dropLeaveTimer(highlightPoint(u, Null))
clearTimerCallback(u) == dropLeaveTimer([u EXCEPT !.hoverPoint = Null])
leaveTimerCallback(u, kind) ==
  IF kind = "out" THEN mouseoutTimerCallback(u) ELSE clearTimerCallback(u)

pointerMove(i, off) ==
  /\ ui.inputs < MaxPointerInputs
  /\ i \in DOMAIN ui.promptPoints
  /\ ui' = mousemoveHandler([ui EXCEPT !.inputs = ui.inputs + 1],
                            PointerAt(ui, i, off))
  /\ UNCHANGED <<loaderVars, treeVars, handled, treeToUIHandled>>

mouseFrameCallback ==
  /\ ui.frameCallbacks.mouse > 0
  /\ ui' = mousemoveFrame(ui)
  /\ UNCHANGED <<loaderVars, treeVars, handled, treeToUIHandled>>

\* mouseover on mark i: the pointer has come onto it
markMouseover(i) ==
  /\ ui.inputs < MaxPointerInputs
  /\ ui.over = 0
  /\ i \in DOMAIN ui.pointMarks
  /\ ui' = highlightPoint(clearLeaveTimer([ui EXCEPT !.inputs = ui.inputs + 1,
                                                     !.over = i]),
                          Some(ui.promptPoints[i].id))
  /\ UNCHANGED <<loaderVars, treeVars, handled, treeToUIHandled>>

\* mouseout on the mark the pointer is over; toPoint: relatedTarget has the
\* class point
markMouseout(toPoint) ==
  /\ ui.inputs < MaxPointerInputs
  /\ ui.over # 0
  /\ LET u1 == [ui EXCEPT !.inputs = ui.inputs + 1, !.over = 0]
     IN ui' = IF toPoint THEN u1 ELSE setLeaveTimer(u1, "out")
  /\ UNCHANGED <<loaderVars, treeVars, handled, treeToUIHandled>>

\* mouseleave on topSvg
svgMouseleave ==
  /\ ui.inputs < MaxPointerInputs
  /\ ui.over = 0
  /\ ui' = highlightPoint([ui EXCEPT !.inputs = ui.inputs + 1], Null)
  /\ UNCHANGED <<loaderVars, treeVars, handled, treeToUIHandled>>

\* The timer that the slot holds fires
leaveTimerFires ==
  /\ ui.pointMouseleaveTimer # "none"
  /\ ui' = leaveTimerCallback([ui EXCEPT !.pointMouseleaveTimer = "none"],
                              ui.pointMouseleaveTimer)
  /\ UNCHANGED <<loaderVars, treeVars, handled, treeToUIHandled>>

\* A pending timer that the slot does not hold fires
orphanTimerFires(kind) ==
  /\ ui.orphanTimers[kind] > 0
  /\ ui' = leaveTimerCallback([ui EXCEPT !.orphanTimers[kind] = @ - 1], kind)
  /\ UNCHANGED <<loaderVars, treeVars, handled, treeToUIHandled>>

\* click on the mark the pointer is over
markClick ==
  /\ ui.inputs < MaxPointerInputs
  /\ ui.over # 0
  /\ ui' = markClicked([ui EXCEPT !.inputs = ui.inputs + 1],
                       ui.promptPoints[ui.over].id)
  /\ UNCHANGED <<loaderVars, treeVars, handled, treeToUIHandled>>

\* click on topSvg off the marks, twice the point width below point i
svgClick(i) ==
  /\ ui.inputs < MaxPointerInputs
  /\ ui.over = 0
  /\ i \in DOMAIN ui.promptPoints
  /\ ui' = clickHandler([ui EXCEPT !.inputs = ui.inputs + 1],
                        PointerAt(ui, i, 2 * PointWidthCap))
  /\ UNCHANGED <<loaderVars, treeVars, handled, treeToUIHandled>>

\* The close button of the detail panel: currClickedPoint.set(null), whose
\* subscriber calls selectPoint(null)
clearSelection ==
  /\ ui.inputs < MaxPointerInputs
  /\ ~ui.clickedPoint.null
  /\ ui' = selectPoint([ui EXCEPT !.inputs = ui.inputs + 1], Null)
  /\ UNCHANGED <<loaderVars, treeVars, handled, treeToUIHandled>>

NextPointer ==
  \/ \E i \in 1..MaxRecords, off \in PointerOffsets : pointerMove(i, off)
  \/ mouseFrameCallback
  \/ \E i \in 1..MaxRecords : markMouseover(i)
  \/ \E toPoint \in BOOLEAN : markMouseout(toPoint)
  \/ svgMouseleave
  \/ leaveTimerFires
  \/ \E kind \in {"out", "clear"} : orphanTimerFires(kind)
  \/ markClick
  \/ \E i \in 1..MaxRecords : svgClick(i)
  \/ clearSelection
  \/ wheeled(<<1, 2>>)
  \/ gestureEnd
  \/ zoomFrameCallback
  \/ deferredZoomTimer
  \/ zoomTimer
  \/ AdvanceTime

SpecPointer == InitZoom /\ [][NextPointer]_vars

(***************************************************************************)
(* Selection: the result list of the search panel and the map              *)
(***************************************************************************)
MaxSelectInputs == 3

\* SearchPanel.getSelectedPoint: the result that has selectedPointId, looked
\* up unless selectedPointId is falsy (null or 0).  The result list holds
\* every point of the map.
getSelectedPoint(sp, u) ==
  IF sp.selectedPointId.null \/ sp.selectedPointId.val = 0 THEN Null
  ELSE IF \E i \in DOMAIN u.promptPoints :
            u.promptPoints[i].id = sp.selectedPointId.val
    THEN Some(u.promptPoints[CHOOSE i \in DOMAIN u.promptPoints :
                u.promptPoints[i].id = sp.selectedPointId.val])
  ELSE Null

\* SearchPanel.clickHandler(point): a click on result i of the list
searchResultClick(i) ==
  /\ ui.inputs < MaxSelectInputs
  /\ i \in DOMAIN ui.promptPoints
  /\ LET point == ui.promptPoints[i]
         u1 == [ui EXCEPT !.inputs = ui.inputs + 1]
     IN IF searchPanel.selectedPointId = Some(point.id)
          THEN /\ searchPanel' = [searchPanel EXCEPT !.selectedPointId = Null]
               /\ ui' = zoomToFullView(selectPoint(u1, Null))
          ELSE /\ searchPanel' = [searchPanel EXCEPT
                                    !.selectedPointId = Some(point.id)]
               /\ ui' = selectSearchPoint(u1, point,
                                          getSelectedPoint(searchPanel, ui))
  /\ UNCHANGED <<loaderVars, treeHandled, treeToUI, searchWorker, handled,
                 treeToUIHandled>>

\* A click on mark i of the map, the pointer having come onto it
mapPointClick(i) ==
  /\ ui.inputs < MaxSelectInputs
  /\ i \in DOMAIN ui.pointMarks
  /\ ui' = markClicked([ui EXCEPT !.inputs = ui.inputs + 1],
                       ui.promptPoints[i].id)
  /\ UNCHANGED <<loaderVars, treeVars, handled, treeToUIHandled>>

\* The close button of the detail panel
closeInfoPanel ==
  /\ ui.inputs < MaxSelectInputs
  /\ clearSelection

NextSelection ==
  \/ \E i \in 1..MaxRecords : searchResultClick(i)
  \/ \E i \in 1..MaxRecords : mapPointClick(i)
  \/ closeInfoPanel
  \/ transitionTick
  \/ zoomFrameCallback
  \/ deferredZoomTimer
  \/ zoomTimer
  \/ AdvanceTime

SpecSelection == InitZoom /\ [][NextSelection]_vars

(***************************************************************************)
(* Display: the point checkbox and the pictures of a loaded map            *)
(***************************************************************************)
\* img.onload / img.onerror of an Image created by drawScatterPlot: onload
\* of a cache miss stores the ratio, onerror puts the default picture on
\* the mark.
imageLoaded(load, ok) ==
  /\ load \in ui.imageLoading
  /\ ui' = [ui EXCEPT
       !.imageLoading = @ \ {load},
       !.imageAspectRatioCache = IF ok /\ load.caches THEN @ \cup {load.src}
                                                      ELSE @,
       !.imageHref = IF ok THEN @ ELSE [@ EXCEPT ![load.el] = DefaultURL]]
  /\ UNCHANGED <<loaderVars, treeVars, handled, treeToUIHandled>>

\* displayCheckboxChanged('point', checked)
displayCheckboxChanged(checked) ==
  /\ ui.inputs < MaxInputs
  /\ ui' = drawScatterPlot([ui EXCEPT !.showPoints = checked,
                                     !.inputs = ui.inputs + 1], FALSE)
  /\ UNCHANGED <<loaderVars, treeVars, handled, treeToUIHandled>>

NextImages ==
  \/ \E c \in BOOLEAN : displayCheckboxChanged(c)
  \/ \E l \in ui.imageLoading, ok \in BOOLEAN : imageLoaded(l, ok)
  \/ AdvanceTime

SpecImages == InitZoom /\ [][NextImages]_vars

(***************************************************************************)
(* Layout: from the opened stream to the last animation frame, under a     *)
(* d3 timer that keeps calling the step of a running simulation            *)
(***************************************************************************)
\* The map when the loader has opened the stream: the handshake is over and
\* the first view has been drawn.
StartedUI(safari) ==
  Rested(zoomFrame(initDataLoaded(InitUI(safari, TRUE),
                                  CHOOSE k \in InitZoomKs : TRUE)))

InitLayout ==
  /\ loaderInbox = <<>>
  /\ response \in Responses
  /\ loaderState = "streaming"
  /\ pendingDataPoints = <<>>
  /\ loadedPointCount = 0
  /\ sentPointCount = 0
  /\ lastDrawnPoints = Null
  /\ loaderErrors = 0
  /\ posted = <<>>
  /\ treeHandled = 1
  /\ treeToUI = <<"finishInitQuadtree">>
  /\ searchWorker = [handled |-> 0, index |-> {}, errors |-> 0]
  /\ searchPanel = InitSearchPanel
  /\ handled = 0
  /\ treeToUIHandled = 1
  /\ \E safari \in BOOLEAN : ui = StartedUI(safari)

NextLayout ==
  \/ processPointStream
  \/ streamError
  \/ pointStreamFinished
  \/ loaderWorkerMessageHandler
  \/ \E d \in TickDeltas : simulationTick(d)
  \/ \E e \in 1..FramesPerAnimation : animationFrame(e)
  \/ AdvanceTime

\* Weak fairness of the simulation's step, with its enabling condition
\* written out: a step is possible exactly while the timer runs, because
\* every step counts up iterationCount.
TimerFairness ==
  \/ []<>(~ui.simTimer)
  \/ []<><<\E d \in TickDeltas : simulationTick(d)>>_vars

SpecLayout ==
  /\ InitLayout
  /\ [][NextLayout]_vars
  /\ TimerFairness
  /\ WF_vars(AdvanceTime)

\* A frame callback requested by the animation runs (requestAnimationFrame).
FrameFairness ==
  \/ []<>(~ui.animationFrameId)
  \/ []<><<\E e \in 1..FramesPerAnimation : animationFrame(e)>>_vars

SpecQuiesce ==
  /\ InitLayout
  /\ [][NextLayout]_vars
  /\ TimerFairness
  /\ FrameFairness

(***************************************************************************)
(* A dispersal animation in flight, with a batch on its way and zooming    *)
(***************************************************************************)
\* The rest of a stream of POINT_THRESHOLD + 1 records: the last batch
RestBatch ==
  [isFirstBatch |-> FALSE, isLastBatch |-> TRUE,
   points |-> <<[id |-> POINT_THRESHOLD,
                 x |-> RawPosition("spread", POINT_THRESHOLD)[1],
                 y |-> RawPosition("spread", POINT_THRESHOLD)[2]]>>,
   loadedPointCount |-> POINT_THRESHOLD + 1]

\* The first batch is laid out; its animation has been started.
AnimatingUI(safari) ==
  Rested(Ticks(transferLoadData(StartedUI(safari), LoadedBatch)))

InitAnimation ==
  /\ loaderInbox = <<>>
  /\ response = "spread"
  /\ loaderState = "done"
  /\ pendingDataPoints = <<>>
  /\ loadedPointCount = POINT_THRESHOLD + 1
  /\ sentPointCount = POINT_THRESHOLD + 1
  /\ lastDrawnPoints = Some(<<>>)
  /\ loaderErrors = 0
  /\ posted = <<LoadedBatch, RestBatch>>
  /\ treeHandled = 1
  /\ treeToUI = <<"finishInitQuadtree">>
  /\ searchWorker = [handled |-> 0, index |-> {}, errors |-> 0]
  /\ searchPanel = InitSearchPanel
  /\ handled = 1
  /\ treeToUIHandled = 1
  /\ \E safari \in BOOLEAN : ui = AnimatingUI(safari)

NextAnimation ==
  \/ loaderWorkerMessageHandler
  \/ simulationTick(<<GridStep, 0>>)
  \/ \E e \in 1..FramesPerAnimation : animationFrame(e)
  \/ wheeled(<<1, 2>>)
  \/ gestureEnd
  \/ zoomFrameCallback
  \/ deferredZoomTimer
  \/ zoomTimer
  \/ AdvanceTime

SpecAnimation == InitAnimation /\ [][NextAnimation]_vars

(***************************************************************************)
(* The local index over a loaded point set                                 *)
(***************************************************************************)
\* Largest number of points of the indexed set, and the coordinates they
\* and the queries are drawn from.
MaxIndexed == 3
IndexCoords == {0, 5, 10}
QueryCoords == {4, 11}
\* Largest number of pointer events that query the index.
MaxQueries == 2

\* The point sets a data file can hold: ids in the order of the records
PointSets ==
  UNION {[1..n -> IndexCoords \X IndexCoords] : n \in 0..MaxIndexed}
PointsAt(coords) ==
  [i \in DOMAIN coords |-> [id |-> i - 1, x |-> coords[i][1], y |-> coords[i][2]]]

\* The only data batch of a short stream and the empty batch that ends it
OnlyBatch(points) ==
  [isFirstBatch |-> TRUE, isLastBatch |-> FALSE, points |-> points,
   loadedPointCount |-> Len(points)]
EndBatch(n) ==
  [isFirstBatch |-> FALSE, isLastBatch |-> TRUE, points |-> <<>>,
   loadedPointCount |-> n]

\* The first batch has been handled, the last one is on its way.
InitIndex ==
  /\ loaderInbox = <<>>
  /\ response = "spread"
  /\ loaderState = "done"
  /\ pendingDataPoints = <<>>
  /\ lastDrawnPoints = Some(<<>>)
  /\ loaderErrors = 0
  /\ treeHandled = 1
  /\ treeToUI = <<"finishInitQuadtree">>
  /\ searchWorker = [handled |-> 0, index |-> {}, errors |-> 0]
  /\ searchPanel = InitSearchPanel
  /\ handled = 1
  /\ treeToUIHandled = 1
  /\ \E coords \in PointSets :
       /\ loadedPointCount = Len(coords)
       /\ sentPointCount = Len(coords)
       /\ posted = <<OnlyBatch(PointsAt(coords)), EndBatch(Len(coords))>>
       /\ ui = Rested(transferLoadData(StartedUI(FALSE),
                                       OnlyBatch(PointsAt(coords))))

\* pointermove at the screen position of the data coordinates (x, y)
pointerQuery(x, y) ==
  /\ ui.inputs < MaxQueries
  /\ ui' = mousemoveHandler([ui EXCEPT !.inputs = ui.inputs + 1],
             <<applyX(ui.curZoomTransform, Screen(x)),
               applyY(ui.curZoomTransform, y)>>)
  /\ UNCHANGED <<loaderVars, treeVars, handled, treeToUIHandled>>

NextIndex ==
  \/ loaderWorkerMessageHandler
  \/ \E c \in QueryCoords : pointerQuery(c, c)
  \/ mouseFrameCallback
  \/ AdvanceTime

SpecIndex == InitIndex /\ [][NextIndex]_vars

(***************************************************************************)
(* Ingestion with messages of unrecognised commands reaching the           *)
(* receivers                                                               *)
(***************************************************************************)
\* Largest number of unrecognised messages per receiver.
MaxStray == 1

\* A message with a command the loader worker has no case for is delivered.
strayToLoaderWorker(command) ==
  /\ command \in Unrecognised("loaderWorker")
  /\ loaderErrors + Len(loaderInbox) < MaxStray
  /\ loaderInbox' = Append(loaderInbox, command)
  /\ UNCHANGED <<response, loaderState, pendingDataPoints, loadedPointCount,
                 sentPointCount, lastDrawnPoints, loaderErrors, posted,
                 treeVars, uiVars>>

\* self.onmessage of the search worker, addPoints: the points are indexed
\* by id.  The n-th addPoints message carries the points of the n-th batch.
searchAddPoints ==
  /\ searchWorker.handled < handled
  /\ searchWorker' =
       [searchWorker EXCEPT
          !.handled = @ + 1,
          !.index = @ \cup {posted[searchWorker.handled + 1].points[i].id :
                              i \in DOMAIN posted[searchWorker.handled + 1].points}]
  /\ UNCHANGED <<treeHandled, treeToUI, searchPanel, loaderVars, uiVars>>

\* self.onmessage of the search worker, default branch
searchOnUnrecognised(command) ==
  /\ command \in Unrecognised("searchWorker")
  /\ searchWorker.errors < MaxStray
  /\ searchWorker' = [searchWorker EXCEPT !.errors = @ + 1]
  /\ UNCHANGED <<treeHandled, treeToUI, searchPanel, loaderVars, uiVars>>

\* A message with a command treeWorkerMessageHandler has no case for is
\* posted to the UI thread.
strayToTreeHandler(command) ==
  /\ command \in Unrecognised("treeWorkerMessageHandler")
  /\ ui.consoleErrors + (Len(treeToUI) - treeToUIHandled) < MaxStray
  /\ treeToUI' = Append(treeToUI, command)
  /\ UNCHANGED <<treeHandled, searchWorker, searchPanel, loaderVars, uiVars>>

\* loaderWorkerMessageHandler and searchWorkerMessageHandler, default branch
handlerOnUnrecognised(handler, command) ==
  /\ command \in Unrecognised(handler)
  /\ ui.consoleErrors + (Len(treeToUI) - treeToUIHandled) < MaxStray
  /\ ui' = consoleError(ui)
  /\ UNCHANGED <<loaderVars, treeVars, handled, treeToUIHandled>>

InitMessages ==
  /\ Init
  /\ ~ui.isSafari

NextMessages ==
  \/ \E k \in InitZoomKs : initData(TRUE, k)
  \/ treeWorkerOnMessage
  \/ treeWorkerMessageHandler
  \/ loaderOnMessage
  \/ \E body \in Responses : startLoadData(TRUE, body)
  \/ processPointStream
  \/ pointStreamFinished
  \/ loaderWorkerMessageHandler
  \/ searchAddPoints
  \/ \E c \in Commands : strayToLoaderWorker(c)
  \/ \E c \in Commands : searchOnUnrecognised(c)
  \/ \E c \in Commands : strayToTreeHandler(c)
  \/ \E c \in Commands : handlerOnUnrecognised("loaderWorkerMessageHandler", c)
  \/ \E c \in Commands : handlerOnUnrecognised("searchWorkerMessageHandler", c)

SpecMessages == InitMessages /\ [][NextMessages]_vars

(***************************************************************************)
(* The search panel: debounced input, searchBarStore and the query         *)
(***************************************************************************)
\* searchBarStore.set(value): the subscriber of Embedding posts startQuery
\* for a queryID it has not seen (the subscriber of the panel only formats
\* the results).
searchBarStoreSet(sp) ==
  LET sp1 == IF sp.store.queryID # sp.completedSearchQueryID
               THEN [sp EXCEPT !.completedSearchQueryID = sp.store.queryID,
                               !.startQueries =
                                  Append(sp.startQueries,
                                         [query |-> sp.store.query,
                                          queryID |-> sp.store.queryID]),
                               !.inFlight = @ \cup {sp.store.queryID}]
               ELSE sp
  IN IF ~sp1.store.shown THEN [sp1 EXCEPT !.searchPointResults = 0] ELSE sp1
\* The subscriber of Embedding hides the result canvas if nothing is shown.
searchBarStoreSeen(u, sp) ==
  IF ~sp.store.shown
    THEN [u EXCEPT !.searchCanvasHidden = TRUE, !.searchPointResults = <<>>]
    ELSE u

\* The callback of the debounce timer (mutant: it does not compare the text
\* with the stored query)
debounceCallbackAlways(sp, query) ==
  searchBarStoreSet([sp EXCEPT !.debounceTimer = Null,
                               !.store.query = query,
                               !.store.queryID = @ + 1])
debounceCallback(sp, query) ==
  LET sp1 == [sp EXCEPT !.debounceTimer = Null]
  IN IF query # sp1.store.query
       THEN searchBarStoreSet([sp1 EXCEPT !.store.query = query,
                                          !.store.queryID = @ + 1])
       ELSE sp1

\* cancelSearch
cancelSearch(sp) ==
  searchBarStoreSet([sp EXCEPT !.store.query = "", !.store.shown = FALSE,
                               !.cancelled = TRUE])

\* inputChanged: the input element holds text
inputChanged(text) ==
  /\ searchPanel.inputs < MaxSearchInputs
  /\ LET sp == [searchPanel EXCEPT !.inputValue = text, !.sinceInput = 0,
                                   !.inputs = @ + 1]
         cancelled == cancelSearch([sp EXCEPT !.debounceTimer = Null])
     IN IF text = ""
          THEN /\ searchPanel' = cancelled
               /\ ui' = searchBarStoreSeen(ui, cancelled)
          ELSE /\ searchPanel' = [sp EXCEPT !.debounceTimer = Some(text),
                                            !.cancelled = FALSE]
               /\ UNCHANGED ui
  /\ UNCHANGED <<loaderVars, treeHandled, treeToUI, searchWorker, handled,
                 treeToUIHandled>>

\* The debounce timer fires, DEBOUNCE_DELAY or more after it was set.
debounceTimerFires ==
  /\ ~searchPanel.debounceTimer.null
  /\ searchPanel.sinceInput >= DEBOUNCE_DELAY
  /\ searchPanel' = debounceCallback(searchPanel, searchPanel.debounceTimer.val)
  /\ ui' = IF searchPanel'.store = searchPanel.store THEN ui
           ELSE searchBarStoreSeen(ui, searchPanel')
  /\ UNCHANGED <<loaderVars, treeHandled, treeToUI, searchWorker, handled,
                 treeToUIHandled>>

\* The cancel button, shown while the input holds text: the input is emptied
\* without an input event, and cancelSearch is called.
cancelButton ==
  /\ searchPanel.inputValue # ""
  /\ searchPanel.cancels < MaxCancels
  /\ searchPanel' = cancelSearch([searchPanel EXCEPT !.inputValue = "",
                                                     !.cancels = @ + 1])
  /\ ui' = searchBarStoreSeen(ui, searchPanel')
  /\ UNCHANGED <<loaderVars, treeHandled, treeToUI, searchWorker, handled,
                 treeToUIHandled>>

\* searchWorkerMessageHandler, finishQuery: the answer to a query that was
\* posted.  searchPoint awaits the embedding of the text, so the answers of
\* two queries come in either order.
searchResults(queryID) ==
  /\ queryID \in searchPanel.inFlight
  /\ searchPanel' =
       [searchBarStoreSet([searchPanel EXCEPT !.answered = @ + 1,
                                              !.inFlight = @ \ {queryID},
                                              !.results = queryID,
                                              !.store.shown = TRUE])
          EXCEPT !.searchPointResults = queryID]
  /\ ui' = drawSearchScatterPlot([ui EXCEPT !.searchCanvasHidden = FALSE,
                                           !.searchPointResults = ResultPoints(ui)])
  /\ UNCHANGED <<loaderVars, treeHandled, treeToUI, searchWorker, handled,
                 treeToUIHandled>>

searchTimePasses ==
  /\ searchPanel.sinceInput < DEBOUNCE_DELAY
  /\ searchPanel' = [searchPanel EXCEPT
                       !.sinceInput = Min(@ + SearchQuantum, DEBOUNCE_DELAY)]
  /\ UNCHANGED <<loaderVars, treeHandled, treeToUI, searchWorker, uiVars>>

NextSearch ==
  \/ \E text \in Texts : inputChanged(text)
  \/ debounceTimerFires
  \/ cancelButton
  \/ \E queryID \in 1..MaxSearchInputs : searchResults(queryID)
  \/ searchTimePasses

SpecSearch == InitZoom /\ [][NextSearch]_vars

(***************************************************************************)
(* Teardown: cleanup() while the stream, the layout and a zoom go on       *)
(***************************************************************************)
\* startPlaceholderRotation: the interval is set, whatever the slot holds
startPlaceholderRotation(u) ==
  [u EXCEPT !.placeholderIntervalId = TRUE, !.placeholderIntervals = @ + 1]

\* stopPlaceholderRotation: the interval that the slot holds is cleared
stopPlaceholderRotation(u) ==
  IF u.placeholderIntervalId
    THEN [u EXCEPT !.placeholderIntervalId = FALSE,
                   !.placeholderIntervals = @ - 1]
    ELSE u

\* cleanup().  The timer of the tooltips, which the model does not hold,
\* and the resize listener are left out.
cleanupKeepingAnimation(u) ==
  stopPlaceholderRotation([u EXCEPT !.zoomTimeout = FALSE,
                                    !.deferredZoomTimeout = FALSE,
                                    !.storeUnsubscribers = 0,
                                    !.cleanedUp = TRUE])
cleanup(u) ==
  stopPlaceholderRotation([u EXCEPT !.zoomTimeout = FALSE,
                                    !.deferredZoomTimeout = FALSE,
                                    !.animationFrameId = FALSE,
                                    !.storeUnsubscribers = 0,
                                    !.cleanedUp = TRUE])

\* onDestroy of the component calls cleanup(), once
componentDestroyed ==
  /\ ~ui.cleanedUp
  /\ ui' = cleanup(ui)
  /\ UNCHANGED <<loaderVars, treeVars, handled, treeToUIHandled>>

\* searchWorkerMessageHandler, checkModelStatus: the search worker has
\* loaded its model, which it reports once
checkModelStatus ==
  /\ ~ui.checkModelStatusHandled
  /\ ui' = startPlaceholderRotation([ui EXCEPT !.checkModelStatusHandled = TRUE])
  /\ UNCHANGED <<loaderVars, treeVars, handled, treeToUIHandled>>

NextCleanup ==
  \/ processPointStream
  \/ streamError
  \/ pointStreamFinished
  \/ loaderWorkerMessageHandler
  \/ \E d \in TickDeltas : simulationTick(d)
  \/ \E e \in 1..FramesPerAnimation : animationFrame(e)
  \/ AdvanceTime
  \/ componentDestroyed
  \/ checkModelStatus

SpecCleanup == InitLayout /\ [][NextCleanup]_vars

(***************************************************************************)
(* Properties of the start-up handshake                                    *)
(***************************************************************************)
\* The tree worker has answered initQuadtree and the UI has handled the answer.
TreeReady ==
  /\ treeHandled >= 1
  /\ ui.toTree[1] = "initQuadtree"
  /\ Len(treeToUI) >= 1
  /\ treeToUI[1] = "finishInitQuadtree"

\* C11: startLoadData reaches the loader only after the tree worker has
\* answered initQuadtree with finishInitQuadtree and the UI has handled that
\* answer; hence every updateQuadtree in the tree worker's queue was sent
\* after the worker finished initializing, and behind initQuadtree.
C11_LoaderStartedAfterTreeReady ==
  /\ (loaderInbox # <<>> \/ loaderState # "idle")
       => (TreeReady /\ treeToUIHandled >= 1)
  /\ \A i \in DOMAIN ui.toTree :
       ui.toTree[i] = "updateQuadtree" => (i > 1 /\ TreeReady)

\* A batch was handled and forwarded to the tree worker.
C11_Witness ==
  /\ handled >= 1
  /\ Len(ui.toTree) >= 2
  /\ ui.toTree[2] = "updateQuadtree"
  /\ TreeReady

(***************************************************************************)
(* Properties of the force simulation                                      *)
(***************************************************************************)
\* C12: a run of the force simulation that terminates calls the onEnd
\* callback exactly once; while a run is in flight, restarted by
\* updateSimulation or not, nothing has been called for it, so a run that
\* was superseded never calls onEnd and however many updateSimulation calls
\* overlapped, there is one onEnd call when the latest run has terminated.
C12_OnEndOncePerRun ==
  /\ ui.onEndCalls <= 1
  /\ ui.simTimer => ui.onEndCalls = 0
  /\ (ui.simulation /\ ~ui.simTimer) => ui.onEndCalls = 1

\* A run that was restarted in flight has terminated.
C12_Witness ==
  /\ ui.superseded
  /\ ~ui.simTimer
  /\ ui.onEndCalls = 1

\* C13: a run in flight has made fewer than MaxIterations ticks since its
\* latest (re)start and its alpha is not below AlphaMin, that is, the run
\* was stopped at the first tick at which either condition failed; and
\* every run in flight terminates.
C13_RunTerminates ==
  /\ [](ui.simTimer => (ui.iterationCount < MaxIterations /\ ui.alpha >= AlphaMin))
  /\ [](ui.iterationCount <= MaxIterations)
  /\ (ui.simTimer ~> ~ui.simTimer)

\* A run has terminated at a tick where the stopping condition held.
C13_Witness ==
  /\ ui.simulation
  /\ ~ui.simTimer
  /\ ui.iterationCount >= 1
  /\ shouldStop(ui)

(***************************************************************************)
(* Properties of the pictures                                              *)
(***************************************************************************)
\* C14: across redraws no URL has an Image created for it more than once.
C14_DecodedAtMostOnce == ui.imageDecodedAgain = {}

(***************************************************************************)
(* Properties of hover and selection                                       *)
(***************************************************************************)
\* The pointer frame resolves the hover from the local index.
HoverResolved ==
  /\ mouseFrameCallback
  /\ ui.showPoints /\ ~ui.hideHighlights
  /\ ~ui.pointQuadtree.null /\ Len(ui.promptPoints) > 0
  /\ Len(ui.pointQuadtree.val) > 0

\* The indexed point nearest to the pointer of the frame, and the square of
\* its screen distance from the pointer
NearestToPointer ==
  find(ui, invertX(ui.curZoomTransform, ui.rafEvent[1]),
           invertY(ui.curZoomTransform, ui.rafEvent[2])).val
PointerDistance2 ==
  ScreenDistance2(ui, NearestToPointer, ui.rafEvent[1], ui.rafEvent[2])

\* C15: mouseoverPoint highlights the nearest indexed point if and only if
\* its screen distance from the pointer is at most
\* max(fixed minimum pixels, 2 * point width), the boundary included;
\* otherwise the hover stays as it was.
C15_HoverWithinThreshold ==
  [][HoverResolved =>
       LET threshold == Max(HoverMinPixels, 2 * ui.curPointWidth)
       IN IF PointerDistance2 <= threshold * threshold
            THEN ui'.hoverPoint = Some(NearestToPointer)
            ELSE ui'.hoverPoint = ui.hoverPoint]_vars

\* C16: while the pointer is over a point, no step takes the hover away: a
\* leave timer that was pending when the point was entered has been
\* cancelled, so it cannot clear the hover afterwards.
C16_NoStaleClear ==
  [][(~ui.hoverPoint.null /\ ui'.hoverPoint.null) => ui.over = 0]_vars

\* The point that a click is on: the mark under the pointer, or for a click
\* on the background of topSvg the hovered point
ClickOnMark == markClick
ClickOnSvg == \E i \in 1..MaxRecords : svgClick(i)
ClickTarget ==
  IF ui.over # 0 THEN Some(ui.promptPoints[ui.over].id) ELSE ui.hoverPoint

\* C17: a click on a point toggles the selection: the selected point is
\* deselected, any other point becomes the selection in place of the
\* previous one; the hover is left as it was, and the selection is never
\* more than one point.
C17_ClickToggles ==
  /\ [](\/ ui.clickedPoint.null
        \/ \E i \in DOMAIN ui.promptPoints :
              ui.clickedPoint.val = ui.promptPoints[i].id)
  /\ [][((ClickOnMark \/ ClickOnSvg) /\ ~ClickTarget.null) =>
          /\ ui'.clickedPoint =
               IF ui.clickedPoint = ClickTarget THEN Null ELSE ClickTarget
          /\ ui'.hoverPoint = ui.hoverPoint]_vars

\* A click has selected the hovered point, and it is still hovered.
C17_Witness ==
  /\ ui.over # 0
  /\ ui.clickedPoint = Some(ui.promptPoints[ui.over].id)
  /\ ui.hoverPoint = ui.clickedPoint

\* The steps that select or deselect: a click, the close button, the search
\* panel
SelectionStep ==
  \/ ClickOnMark
  \/ ClickOnSvg
  \/ clearSelection
  \/ \E new \in 1..MaxRecords, old \in 0..MaxRecords : searchSelect(new, old)
  \/ searchDeselect

LeaveTimersPending ==
  (IF ui.pointMouseleaveTimer = "none" THEN 0 ELSE 1)
    + ui.orphanTimers.out + ui.orphanTimers.clear

\* C19: a timer slot holds at most one pending timer: of the timers
\* scheduled through the hover-leave slot at most one is pending (the slots
\* deferredZoomTimeout and zoomTimeout are cleared before they are set, so
\* they are pending or not).
C19_SingleSlot ==
  /\ ui.deferredZoomTimeout \in BOOLEAN
  /\ ui.zoomTimeout \in BOOLEAN
  /\ LeaveTimersPending <= 1

\* C20: at most one frame callback of zoomed() and at most one of
\* mousemoveHandler is pending, and the guard is set exactly while one is;
\* a step taken while the callback is pending, or less than the throttle
\* after the last event that passed it, requests no callback; the callback
\* releases the guard.
C20_FrameGuards ==
  /\ [](/\ ui.frameCallbacks.zoom = IF ui.zoomRafPending THEN 1 ELSE 0
        /\ ui.frameCallbacks.mouse = IF ui.rafPending THEN 1 ELSE 0)
  /\ [][/\ (ui.zoomRafPending \/ ui.sinceZoom < ZOOM_THROTTLE) =>
             ui'.frameCallbacks.zoom <= ui.frameCallbacks.zoom
        /\ (ui.rafPending \/ ui.sinceMouseMove < MOUSE_MOVE_THROTTLE) =>
             ui'.frameCallbacks.mouse <= ui.frameCallbacks.mouse
        /\ zoomFrameCallback => ~ui'.zoomRafPending
        /\ mouseFrameCallback => ~ui'.rafPending]_vars

\* Both callbacks are pending, and a zoom event that came after the one the
\* zoom callback holds has requested nothing.
C20_Witness ==
  /\ ui.zoomRafPending
  /\ ui.rafPending
  /\ ui.zoomTransform # ui.zoomRafEvent

(***************************************************************************)
(* Properties of the local index                                           *)
(***************************************************************************)
\* Square of the distance in data coordinates
DataDistance2(pt, x, y) == (pt.x - x) * (pt.x - x) + (pt.y - y) * (pt.y - y)

\* find on the index of u answers every query with a point of P at minimal
\* distance, and with none exactly if P is empty.
NearestOf(u, P) ==
  \A x \in IndexCoords \cup QueryCoords, y \in IndexCoords \cup QueryCoords :
    LET r == find(u, x, y)
    IN IF Len(P) = 0 THEN r.null
       ELSE /\ ~r.null
            /\ \E i \in DOMAIN P :
                 /\ P[i].id = r.val
                 /\ \A j \in DOMAIN P :
                      DataDistance2(P[i], x, y) <= DataDistance2(P[j], x, y)

ExamplePoints == PointsAt(<<<<0, 0>>, <<10, 10>>, <<5, 5>>>>)

\* C21: once the index has been rebuilt over the point set P, a nearest
\* query returns a point of P at minimal Euclidean distance from the query,
\* and none only if P is empty; over {(0,0), (10,10), (5,5)} the query
\* (4, 4) returns (5, 5).
C21_NearestIsClosest ==
  [][ui'.pointQuadtree # ui.pointQuadtree =>
       /\ ~ui'.pointQuadtree.null
       /\ NearestOf(ui', ui'.promptPoints)
       /\ ui'.promptPoints = ExamplePoints => find(ui', 4, 4) = Some(2)]_vars

\* The index has been rebuilt over the three points of the example and the
\* pointer frame at (4, 4) has found (5, 5).
C21_Witness ==
  /\ ui.promptPoints = ExamplePoints
  /\ ui.pointQuadtree = Some(ExamplePoints)
  /\ ui.lastMouseClientPosition =
       Some(<<applyX(ui.curZoomTransform, Screen(4)),
              applyY(ui.curZoomTransform, 4)>>)
  /\ ui.hoverPoint = Some(2)

(***************************************************************************)
(* Properties of the collection                                            *)
(***************************************************************************)
\* C22: whatever prefix of the batches the UI thread has handled,
\* promptPoints is those batches one after the other, so the point at index
\* i has the id i; every id the search worker was given (and can return)
\* is the index of a point with that id.
C22_IdIsIndex ==
  /\ PointIds(ui.promptPoints) = PointIds(PointsOfBatches(posted, handled))
  /\ \A i \in DOMAIN ui.promptPoints : ui.promptPoints[i].id = i - 1
  /\ \A id \in ui.toSearch :
       /\ id + 1 \in DOMAIN ui.promptPoints
       /\ ui.promptPoints[id + 1].id = id

\* Two batches are handled, a third is waiting.
C22_Witness ==
  /\ handled = 2
  /\ Len(posted) > 2
  /\ Len(ui.promptPoints) = 2 * POINT_THRESHOLD
  /\ Cardinality(ui.toSearch) = 2 * POINT_THRESHOLD

(***************************************************************************)
(* Properties of the dispersal animation                                   *)
(***************************************************************************)
\* C23: when an animation reaches its end, finalization redraws in full in
\* that step (the draw is of this instant and the marks are those of the
\* final positions) and leaves the index rebuilt over the final positions,
\* whatever zoom frames and draws of batches came before.
C23_FullRedrawAtFinalization ==
  [][Finalization =>
       /\ ui'.sinceDraw = 0
       /\ ui'.pointsGroup = Some(ui'.curZoomTransform)
       /\ ui'.pointMarks = PositionsOf(ui'.promptPoints)
       /\ ui'.pointQuadtree = Some(ui'.promptPoints)]_vars

\* A batch is handled while an animation is in flight.
BatchDuringAnimation == loaderWorkerMessageHandler /\ ui.isAnimatingDispersal

\* C24: a batch handled while an animation is in flight cancels it in that
\* step: isAnimatingDispersal is false, no frame callback of it is left to
\* run, the pre snapshot is taken again and the layout is restarted over
\* all points; frames run only for an animation in flight, and an animation
\* starts only in the step in which a layout run ends.
C24_BatchCancelsAnimation ==
  /\ [][BatchDuringAnimation =>
          /\ ~ui'.isAnimatingDispersal
          /\ ~ui'.animationFrameId
          /\ ui'.simTimer /\ ui'.iterationCount = 0 /\ ui'.alpha = AlphaOne
          /\ ui'.preSimPositions = Some(PositionMap(ui'.promptPoints))
          /\ Len(ui'.promptPoints) =
               Len(ui.promptPoints) + Len(posted[handled + 1].points)]_vars
  /\ [](ui.animationFrameId => ui.isAnimatingDispersal)
  /\ [][(~ui.isAnimatingDispersal /\ ui'.isAnimatingDispersal) =>
          (ui.simTimer /\ ~ui'.simTimer)]_vars

\* The batch has cancelled an animation (its post snapshot is still there)
\* and the layout runs again over all points.
C24_Witness ==
  /\ handled = 2
  /\ ui.simTimer
  /\ ~ui.isAnimatingDispersal
  /\ ~ui.postSimPositions.null
  /\ Len(ui.promptPoints) = POINT_THRESHOLD + 1

(***************************************************************************)
(* Properties of messages with unrecognised commands                       *)
(***************************************************************************)
\* Every message of the pipeline has been handled.
PipelineDone ==
  /\ loaderState = "done"
  /\ loaderInbox = <<>>
  /\ treeToUIHandled = Len(treeToUI)
  /\ handled = Len(posted)
  /\ searchWorker.handled = handled

\* The loader worker takes a message it has no case for.
LoaderWorkerDefault ==
  /\ loaderInbox # <<>>
  /\ Head(loaderInbox) \notin Recognised.loaderWorker
  /\ loaderInbox' = Tail(loaderInbox)

\* C25: a receiver that gets a command it has no case for logs it and does
\* nothing else: its state is as it was, no message is posted to anyone,
\* and the messages of the pipeline are handled as ever: the points held
\* by the UI thread and indexed by the search worker are those of the
\* batches each has handled.
C25_UnrecognisedIgnored ==
  /\ [][LoaderWorkerDefault =>
          /\ loaderErrors' = loaderErrors + 1
          /\ UNCHANGED <<response, loaderState, pendingDataPoints,
                         loadedPointCount, sentPointCount, lastDrawnPoints,
                         posted, treeVars, uiVars>>]_vars
  /\ [][searchWorker'.errors # searchWorker.errors =>
          /\ searchWorker' = [searchWorker EXCEPT !.errors = @ + 1]
          /\ UNCHANGED <<treeHandled, treeToUI, searchPanel, loaderVars, uiVars>>]_vars
  /\ [][ui'.consoleErrors # ui.consoleErrors =>
          /\ ui' = [ui EXCEPT !.consoleErrors = @ + 1]
          /\ UNCHANGED <<loaderVars, treeVars, handled>>]_vars
  /\ [](/\ PointIds(ui.promptPoints) = PointIds(PointsOfBatches(posted, handled))
        /\ searchWorker.index =
             {i - 1 : i \in 1..Len(PointsOfBatches(posted, searchWorker.handled))})

\* Each receiver has logged a message, and ingestion is complete.
C25_Witness ==
  /\ loaderErrors = MaxStray
  /\ searchWorker.errors = MaxStray
  /\ ui.consoleErrors = MaxStray
  /\ PipelineDone
  /\ searchWorker.index = {i - 1 : i \in 1..MaxRecords}
  /\ Len(ui.promptPoints) = MaxRecords

(***************************************************************************)
(* Properties of leaving a hovered point                                   *)
(***************************************************************************)
\* A frame resolves a pointer position whose nearest point is farther than
\* the threshold, of the code and of max(minimum pixels, 2 * point width)
\* alike, while a point is hovered and the pointer is over no mark.
FarFromEveryPoint ==
  /\ HoverResolved
  /\ ~ui.hoverPoint.null
  /\ ui.over = 0
  /\ ~WithinHoverThreshold(ui, PointerDistance2)
  /\ PointerDistance2 > Max(HoverMinPixels, 2 * ui.curPointWidth)
                          * Max(HoverMinPixels, 2 * ui.curPointWidth)

\* The pointer leaves topSvg while a point is hovered.
LeavesSurface == svgMouseleave /\ ~ui.hoverPoint.null

\* C26: a hovered point is cleared after the delay when the pointer moves
\* to where the nearest point is beyond the hover threshold, or leaves the
\* surface: after that step the hover is gone or a leave timer is pending
\* that will clear it, and the timer's callback clears hoverPoint.
C26_FarMoveClears ==
  /\ [][(FarFromEveryPoint \/ LeavesSurface) =>
          (ui'.hoverPoint.null \/ LeaveTimersPending' > 0)]_vars
  /\ [][(leaveTimerFires /\ ui.pointMouseleaveTimer = "clear") =>
          ui'.hoverPoint.null]_vars

(***************************************************************************)
(* Properties of the frames of the dispersal animation                     *)
(***************************************************************************)
\* A frame callback of the animation runs.
AnimationFrameStep == \E e \in 1..FramesPerAnimation : animationFrame(e)

\* What a frame before finalization may change: the points' positions, the
\* position buffer, the transforms of the overlay, and the animation's own
\* clock and pending callback.
LightweightChange(u, v) ==
  v = [u EXCEPT !.promptPoints = v.promptPoints,
                !.frontPositionBuffer = v.frontPositionBuffer,
                !.pointsGroup = v.pointsGroup,
                !.pointMarks = v.pointMarks,
                !.animElapsed = v.animElapsed,
                !.animationFrameId = v.animationFrameId]

\* C27: a frame of the animation before finalization changes only the
\* points' x and y, the position buffer and the transforms of the overlay
\* marks: no draw time is taken, no image is decoded, nothing is posted to
\* the tree worker and the index is not rebuilt; a frame does the full
\* redraw exactly when it finalizes.
C27_LightweightFrames ==
  /\ [][(AnimationFrameStep /\ ~Finalization) =>
          /\ LightweightChange(ui, ui')
          /\ ui'.sinceDraw = ui.sinceDraw
          /\ ui'.imageLoading = ui.imageLoading
          /\ ui'.toTree = ui.toTree
          /\ ui'.pointQuadtree = ui.pointQuadtree
          /\ ui'.isAnimatingDispersal]_vars
  /\ [][(AnimationFrameStep /\ Finalization) =>
          /\ ui'.sinceDraw = 0
          /\ ui'.curPointWidth = PointWidthCap
          /\ Len(ui'.toTree) = Len(ui.toTree) + 1]_vars

(***************************************************************************)
(* Properties of the zoom life cycle                                       *)
(***************************************************************************)
\* Idle: no frame callback of zoomed() and no deferred-zoom timer pending
ZoomIdle == ~ui.zoomRafPending /\ ~ui.deferredZoomTimeout

\* A zoom event is delivered: the behaviour's transform changes.
ZoomEvent == ui'.zoomTransform # ui.zoomTransform

\* Zoom events have stopped: no gesture or transition is under way and none
\* can begin.
ZoomStopped ==
  /\ ui.gesture = "none"
  /\ ui.transition.null
  /\ ui.inputs = MaxInputs

\* C28: a zoom event leaves Idle (a frame callback is pending after it),
\* and once zoom events have stopped the system comes back to Idle with the
\* work done for the final transform: the view and all the surfaces are at
\* the transform of the last zoom event.
C28_ReturnsToIdle ==
  /\ [][ZoomEvent => ~ZoomIdle']_vars
  /\ ZoomStopped ~>
       (/\ ZoomIdle
        /\ ui.curZoomTransform = ui.zoomTransform
        /\ ui.umapGroup = ui.zoomTransform
        /\ ui.topGroup = ui.zoomTransform
        /\ ui.pointsGroup = Some(ui.zoomTransform))

(***************************************************************************)
(* Properties of the end of ingestion                                      *)
(***************************************************************************)
\* The last batch has been handled.
LastBatchHandled ==
  /\ StreamEnded
  /\ AllHandled
  /\ Len(posted) > 0
  /\ posted[Len(posted)].isLastBatch

\* The pipeline is at rest over all loaded points.
Quiescent ==
  /\ ~ui.simTimer
  /\ ~ui.isAnimatingDispersal
  /\ ~ui.animationFrameId
  /\ ui.preSimPositions.null
  /\ ui.postSimPositions.null
  /\ PointIds(ui.promptPoints) = PointIds(PointsOfBatches(posted, Len(posted)))
  /\ ui.pointQuadtree = Some(ui.promptPoints)

\* C29: once the last batch has been handled the pipeline comes to rest:
\* the layout run has ended, the animation has run and finalized, both
\* snapshots are discarded and pointQuadtree holds every loaded point at
\* the position it now has; and from then on nothing changes that.
C29_Quiesces ==
  /\ LastBatchHandled ~> Quiescent
  /\ [][(LastBatchHandled /\ Quiescent) => Quiescent']_vars

\* The pipeline at rest after a stream of several batches, the points away
\* from where the loader put them.
C29_Witness ==
  /\ LastBatchHandled
  /\ Quiescent
  /\ Len(posted) > 2
  /\ Len(ui.promptPoints) = MaxRecords
  /\ \E i \in DOMAIN ui.promptPoints :
       <<ui.promptPoints[i].x, ui.promptPoints[i].y>>
         # RawPosition(response, ui.promptPoints[i].id)

(***************************************************************************)
(* Properties of the search input                                          *)
(***************************************************************************)
\* An input event is handled.
InputEvent == searchPanel'.inputs = searchPanel.inputs + 1

OldPositions(u, n) == [i \in 1..n |-> <<u.promptPoints[i].x, u.promptPoints[i].y>>]
PositionsWritten ==
  /\ Len(ui'.promptPoints) >= Len(ui.promptPoints)
  /\ OldPositions(ui', Len(ui.promptPoints)) # OldPositions(ui, Len(ui.promptPoints))

SnapshotsCover(u) ==
  /\ ~u.preSimPositions.null
  /\ ~u.postSimPositions.null
  /\ \A i \in DOMAIN u.promptPoints :
       /\ u.promptPoints[i].id \in DOMAIN u.preSimPositions.val
       /\ u.promptPoints[i].id \in DOMAIN u.postSimPositions.val

\* C37: whenever a frame of the animation can run, both snapshots are held
\* and cover the id of every point in promptPoints; a frame that does not
\* finalize puts every point between its two snapshot positions, a frame
\* that finalizes puts every point at its post position.
C37_SnapshotsCover ==
  /\ []((ui.animationFrameId \/ ui.isAnimatingDispersal) => SnapshotsCover(ui))
  /\ [][\A e \in 1..FramesPerAnimation : animationFrame(e) =>
          \A i \in DOMAIN ui'.promptPoints :
            LET id == ui.promptPoints[i].id
                pre == ui.preSimPositions.val[id]
                post == ui.postSimPositions.val[id]
                f == Min(e, FramesPerAnimation)
            IN /\ ui'.promptPoints[i].x = Lerp(pre[1], post[1], f)
               /\ ui'.promptPoints[i].y = Lerp(pre[2], post[2], f)
               /\ f = FramesPerAnimation =>
                    <<ui'.promptPoints[i].x, ui'.promptPoints[i].y>> = post]_vars

\* An animation over the points of several batches is under way.
C37_Witness ==
  /\ ui.isAnimatingDispersal
  /\ ui.animationFrameId
  /\ ui.animElapsed > 0
  /\ handled >= 2
  /\ Len(ui.promptPoints) > POINT_THRESHOLD
  /\ \E i \in DOMAIN ui.promptPoints :
       ui.preSimPositions.val[ui.promptPoints[i].id]
         # ui.postSimPositions.val[ui.promptPoints[i].id]

(***************************************************************************)
(* Properties of the search results                                        *)
(***************************************************************************)
\* C31: once every query that was posted has been answered, the results
\* held by the store are those of the query issued last, as are the points
\* of the search pass while the results are shown; and the answer to an
\* older query never replaces the results of a newer one.
C31_LatestResultsShown ==
  /\ []((searchPanel.inFlight = {} /\ searchPanel.store.queryID > 0) =>
          /\ searchPanel.results = searchPanel.store.queryID
          /\ searchPanel.store.shown =>
               searchPanel.searchPointResults = searchPanel.store.queryID)
  /\ [][searchPanel'.results >= searchPanel.results]_vars

\* C32: from cancelSearch until the next text is entered, the result list
\* and the canvas of the search pass stay hidden, the search pass holds no
\* point, and no startQuery is posted.
C32_CancelledStaysClosed ==
  /\ [](searchPanel.cancelled =>
          /\ ~searchPanel.store.shown
          /\ ui.searchCanvasHidden
          /\ searchPanel.searchPointResults = 0)
  /\ [][(searchPanel.cancelled /\ searchPanel'.cancelled) =>
          searchPanel'.startQueries = searchPanel.startQueries]_vars

(***************************************************************************)
(* Properties of the selection                                             *)
(***************************************************************************)
\* C33: the result the search panel marks as selected is the point the map
\* has selected: selectedPointId is held exactly when clickedPoint is the
\* point with that id, and is null when no point is selected.
C33_SelectionAgrees == searchPanel.selectedPointId = ui.clickedPoint

(***************************************************************************)
(* Properties of the programmatic zooms                                    *)
(***************************************************************************)
\* C34: a programmatic zoom that has set hideHighlights is followed by a
\* state in which hideHighlights is false again, whether its transition
\* runs to its end or is interrupted.
C34_HighlightsReturn == ui.hideHighlights ~> ~ui.hideHighlights

(***************************************************************************)
(* Properties of the teardown                                              *)
(***************************************************************************)
\* C35: once cleanup() has returned nothing of the Embedding is pending, and
\* nothing becomes pending again: no zoom or deferred-zoom timer, no
\* hover-leave timer, no frame of the dispersal animation, no frame callback
\* of the zoom or the pointer, no placeholder interval, no store
\* subscription; and no simulation run is started.
C35_NothingPendingAfterCleanup ==
  /\ [](ui.cleanedUp =>
          /\ ~ui.zoomTimeout
          /\ ~ui.deferredZoomTimeout
          /\ ui.pointMouseleaveTimer = "none"
          /\ ~ui.animationFrameId
          /\ ui.frameCallbacks.zoom = 0
          /\ ui.frameCallbacks.mouse = 0
          /\ ui.placeholderIntervals = 0
          /\ ui.storeUnsubscribers = 0)
  /\ [][(ui.cleanedUp /\ ~ui.simTimer) => ~ui'.simTimer]_vars

(***************************************************************************)
(* Properties of the search pass                                           *)
(***************************************************************************)
\* C38: in every draw of the search pass the number of vertices that is
\* drawn is the number of positions handed to the draw call.
C38_CountIsPositions ==
  ui.searchDraw.null \/ ui.searchDraw.val.count = ui.searchDraw.val.positions

====
